---- MODULE Spec2Model ----
(***************************************************************************)
(* A model of the AMM fee-strategy simulator (amm_sim_rs).                 *)
(*                                                                         *)
(* Numbers.  The engine computes in f64.  An f64 is modelled as a binary   *)
(* floating-point number with a significand of Precision bits and         *)
(* round-to-nearest-even after every operation, as IEEE 754 prescribes     *)
(* (f64 has 53 bits; the exponent range is not bounded here, so there is   *)
(* no infinity, NaN or subnormal).  A float is the record                  *)
(*     [s |-> sign, m |-> significand, e |-> exponent],                    *)
(* of value s * m * 2^e with 2^(Precision-1) <= m < 2^Precision, or FZero. *)
(*                                                                         *)
(* A Wad is a raw integer.  Raw values are carried in units of 10^14 (one  *)
(* basis point), so that ONE = 10^18 is WAD = 10000 units.                 *)
(*                                                                         *)
(* Layout.  A value the code binds with `let` and uses more than once is   *)
(* passed as a parameter to a helper operator, named after the function    *)
(* it continues; the parameter carries the name of the `let`.              *)
(***************************************************************************)
EXTENDS Integers, Sequences, FiniteSets, TLC

\* ------------------------------------------------------------- bounds
\* bits of significand of a float (f64: 53)
Precision == 12
\* calls made on the pool in SpecPool
MaxCalls == 3

\* ------------------------------------------------------------- f64
\* `let v = ...; body`: the value bound once, the body reading it as x
Let(v, F(_)) == F(v)

MantLo == 2^(Precision - 1)
MantHi == 2^Precision

RECURSIVE BitLen(_)
BitLen(n) == IF n < 2 THEN 1 ELSE 1 + BitLen(n \div 2)

FZero == [s |-> 0, m |-> 0, e |-> 0]

\* Rounding.  FRound(sgn, n, e, sticky) is the float nearest to
\* sgn * (n + d) * 2^e, where n > 0, 0 <= d < 1 and sticky says d > 0 (then n
\* has more than Precision bits); ties go to the even significand.
FNorm(sgn, q, e) ==
    IF q = MantHi THEN [s |-> sgn, m |-> MantLo, e |-> e + 1]
    ELSE [s |-> sgn, m |-> q, e |-> e]

\* 1 when q + r/d (+ a little, if sticky) rounds up to q + 1
RoundUp(q, r, d, sticky) ==
    IF 2 * r > d \/ (2 * r = d /\ (sticky \/ q % 2 = 1)) THEN 1 ELSE 0

\* drop the low bits of n below d = 2^k
FRoundCut(sgn, n, e, sticky, d) ==
    FNorm(sgn, n \div d + RoundUp(n \div d, n % d, d, sticky), e)

FRoundLen(sgn, n, e, sticky, len) ==
    IF len <= Precision
    THEN [s |-> sgn, m |-> n * 2^(Precision - len), e |-> e - (Precision - len)]
    ELSE FRoundCut(sgn, n, e + (len - Precision), sticky, 2^(len - Precision))

FRound(sgn, n, e, sticky) == FRoundLen(sgn, n, e, sticky, BitLen(n))

FromInt(n) ==
    IF n = 0 THEN FZero
    ELSE IF n > 0 THEN FRound(1, n, 0, FALSE) ELSE FRound(-1, -n, 0, FALSE)

FNeg(a) == [a EXCEPT !.s = -a.s]

\* |a| < |b| for non-zero floats (both normalised)
MagLt(a, b) == a.e < b.e \/ (a.e = b.e /\ a.m < b.m)

FLt(a, b) ==
    IF a.s # b.s THEN a.s < b.s
    ELSE IF a.s = 0 THEN FALSE
    ELSE IF a.s = 1 THEN MagLt(a, b)
    ELSE MagLt(b, a)

FLe(a, b) == a = b \/ FLt(a, b)
FGt(a, b) == FLt(b, a)
FGe(a, b) == FLe(b, a)

FAbs(a) == [a EXCEPT !.s = IF a.m = 0 THEN 0 ELSE 1]
FMax(a, b) == IF FLt(a, b) THEN b ELSE a
FMin(a, b) == IF FLt(b, a) THEN b ELSE a

\* |a| + |b| with sign sgn, for non-zero a, b with |a| >= |b| and
\* d = a.e - b.e
MagAdd(sgn, a, b, d) ==
    IF d >= Precision + 1 THEN [a EXCEPT !.s = sgn]
    ELSE FRound(sgn, a.m * 2^d + b.m, b.e, FALSE)

\* |a| - |b| with sign sgn, for non-zero a, b with |a| >= |b| and
\* d = a.e - b.e
MagSub(sgn, a, b, d) ==
    IF d >= Precision + 2 THEN [a EXCEPT !.s = sgn]
    ELSE IF a.m * 2^d = b.m THEN FZero
    ELSE FRound(sgn, a.m * 2^d - b.m, b.e, FALSE)

\* for non-zero a, b with |a| >= |b|
MagSum(a, b) ==
    IF a.s = b.s THEN MagAdd(a.s, a, b, a.e - b.e)
    ELSE MagSub(a.s, a, b, a.e - b.e)

FAdd(a, b) ==
    IF a.s = 0 THEN b
    ELSE IF b.s = 0 THEN a
    ELSE IF MagLt(a, b) THEN MagSum(b, a) ELSE MagSum(a, b)

FSub(a, b) == FAdd(a, FNeg(b))

FMul(a, b) ==
    IF a.s = 0 \/ b.s = 0 THEN FZero
    ELSE FRound(a.s * b.s, a.m * b.m, a.e + b.e, FALSE)

\* a / b for non-zero a, b, from num = a.m * 2^(Precision + 1)
FDivNum(a, b, num) ==
    FRound(a.s * b.s, num \div b.m, a.e - b.e - (Precision + 1), num % b.m # 0)

\* a / b for b # 0
FDiv(a, b) ==
    IF a.s = 0 THEN FZero ELSE FDivNum(a, b, a.m * 2^(Precision + 1))

RECURSIVE ISqrtIter(_, _)
ISqrtIter(n, x) ==
    IF (x + n \div x) \div 2 < x THEN ISqrtIter(n, (x + n \div x) \div 2) ELSE x

\* floor(sqrt(n)) for n > 0
ISqrt(n) == ISqrtIter(n, 2^((BitLen(n) + 1) \div 2))

\* sqrt(n * 2^e) for n > 0 and even e, from r = floor(sqrt(n))
FSqrtRoot(n, e, r) == FRound(1, r, e \div 2, r * r # n)

\* sqrt(a.m * 2^t * 2^(a.e - t)) with a.e - t even
FSqrtShift(a, t) == FSqrtRoot(a.m * 2^t, a.e - t, ISqrt(a.m * 2^t))

\* sqrt(a) for a >= 0
FSqrt(a) ==
    IF a.s = 0 THEN FZero
    ELSE IF (a.e - (Precision + 1)) % 2 = 0 THEN FSqrtShift(a, Precision + 1)
    ELSE FSqrtShift(a, Precision + 2)

\* The float nearest to the ratio p / q of two positive integers
FRatio(p, q) == FDiv(FromInt(p), FromInt(q))

FClamp(a, lo, hi) == FMin(FMax(a, lo), hi)

F0 == FZero
F1 == FromInt(1)

\* ------------------------------------------------------------- Wad
\* types/wad.rs; raw values in units of 10^14
BPS == 1
WAD == 10000 * BPS
MAX_FEE == 1000 * BPS

\* The largest raw value: i128::MAX in the code, which a float-to-integer
\* cast saturates at.
RawMax == 2^30 - 1

\* `f as i128`: truncation toward zero, saturating
FToInt(f) ==
    IF f.s = 0 THEN 0
    ELSE IF f.e + Precision > 30 THEN f.s * RawMax
    ELSE IF f.e >= 0 THEN f.s * (f.m * 2^f.e)
    ELSE IF -f.e >= Precision THEN 0
    ELSE f.s * (f.m \div 2^(-f.e))

Wad_from_f64(value) == FToInt(FMul(value, FromInt(WAD)))

Wad_to_f64(raw) == FDiv(FromInt(raw), FromInt(WAD))

Wad_from_bps(bps) == bps * BPS

IMax(a, b) == IF a >= b THEN a ELSE b
IMin(a, b) == IF a <= b THEN a ELSE b

clamp_fee(raw) == IMin(IMax(raw, 0), MAX_FEE)

\* i128 arithmetic. The code's integers are two's-complement of 128 bits with
\* largest value i128::MAX; the model's are two's-complement of 31 bits with
\* largest value RawMax. An overflowing `*` or `+` panics when the build has
\* overflow checks (debug, tests) and wraps when it has none (release,
\* benches): overflow_checks is the build's setting.
IAbs(n) == IF n < 0 THEN -n ELSE n
ISign(n) == IF n < 0 THEN -1 ELSE 1

\* `a / b` on integers: the quotient truncated toward zero
TruncDiv(a, b) == ISign(a) * ISign(b) * (IAbs(a) \div IAbs(b))

IntOk(v) == [ok |-> TRUE, v |-> v]
Panicked == [ok |-> FALSE, v |-> 0]

Half == 2^15

\* the exact product of the magnitudes a, b <= RawMax + 1, as the two digits
\* [hi, lo] of hi * (RawMax + 1) + lo
WideDigits(high, mid, low) ==
    [hi |-> high + mid \div Half + ((mid % Half) * Half + low) \div (RawMax + 1),
     lo |-> ((mid % Half) * Half + low) % (RawMax + 1)]

WideMul(a, b) ==
    WideDigits((a \div Half) * (b \div Half),
               (a \div Half) * (b % Half) + (a % Half) * (b \div Half),
               (a % Half) * (b % Half))

\* sign * wide is outside the integers' range
Overflows(sign, wide) ==
    IF sign >= 0 THEN wide.hi > 0
    ELSE wide.hi > 1 \/ (wide.hi = 1 /\ wide.lo > 0)

\* sign * wide reduced to the integers' range (two's complement)
Wrapped(sign, wide) ==
    IF sign >= 0
    THEN IF wide.hi % 2 = 0 THEN wide.lo ELSE wide.lo - RawMax - 1
    ELSE IF wide.hi % 2 = 0 THEN -wide.lo
         ELSE IF wide.lo = 0 THEN -RawMax - 1
         ELSE RawMax + 1 - wide.lo

\* `a * b`
imul(a, b, overflow_checks) ==
    IF ~Overflows(ISign(a) * ISign(b), WideMul(IAbs(a), IAbs(b)))
    THEN IntOk(a * b)
    ELSE IF overflow_checks THEN Panicked
    ELSE IntOk(Wrapped(ISign(a) * ISign(b), WideMul(IAbs(a), IAbs(b))))

\* `a + b`
iadd(a, b, overflow_checks) ==
    IF a > 0 /\ b > RawMax - a
    THEN IF overflow_checks THEN Panicked
         ELSE IntOk((a - RawMax - 1) + (b - RawMax - 1))
    ELSE IF a < 0 /\ b < (-RawMax - 1) - a
    THEN IF overflow_checks THEN Panicked
         ELSE IntOk((a + RawMax + 1) + (b + RawMax + 1))
    ELSE IntOk(a + b)

\* `a / b`: a zero divisor and i128::MIN / -1 panic in every build
idiv(a, b) ==
    IF b = 0 \/ (a = -RawMax - 1 /\ b = -1) THEN Panicked
    ELSE IntOk(TruncDiv(a, b))

\* the result r of an operation, then `/ b`
then_div(r, b) == IF ~r.ok THEN Panicked ELSE idiv(r.v, b)

\* lines 54-58: Wad((self.0 * other.0) / WAD)
wmul(a, b, overflow_checks) == then_div(imul(a, b, overflow_checks), WAD)

\* lines 60-67
wdiv(a, b, overflow_checks) ==
    IF b = 0 THEN IntOk(0)
    ELSE then_div(imul(a, WAD, overflow_checks), b)

\* lines 101-105: the loop `while y < x`, at its test
RECURSIVE sqrt_loop(_, _, _, _)
sqrt_loop(scaled, x, y, overflow_checks) ==
    IF ~(y < x) THEN IntOk(x)
    ELSE Let(idiv(scaled, y), LAMBDA q :
         IF ~q.ok THEN Panicked
         ELSE Let(iadd(y, q.v, overflow_checks), LAMBDA s :
              IF ~s.ok THEN Panicked
              ELSE sqrt_loop(scaled, y, TruncDiv(s.v, 2), overflow_checks)))

\* lines 93-108: Wad::sqrt
Wad_sqrt(v, overflow_checks) ==
    IF v <= 0 THEN IntOk(0)
    ELSE Let(imul(v, WAD, overflow_checks), LAMBDA scaled :
         IF ~scaled.ok THEN Panicked
         ELSE Let(iadd(scaled.v, 1, overflow_checks), LAMBDA s :
              IF ~s.ok THEN Panicked
              ELSE sqrt_loop(scaled.v, scaled.v, TruncDiv(s.v, 2),
                             overflow_checks)))

\* ------------------------------------------------------------- ABI
\* types/trade_info.rs.  A 32-byte big-endian word is [hi, lo]: its upper and
\* its lower 16 bytes as numbers.  Calldata is a selector and its words;
\* return data is a sequence of words (32 bytes each).
SELECTOR_AFTER_INITIALIZE == "837aef47"
SELECTOR_AFTER_SWAP == "c2babb57"
SELECTOR_GET_NAME == "17d7de7c"

TradeInfo_new(is_buy, amount_x, amount_y, timestamp, reserve_x, reserve_y) ==
    [is_buy |-> is_buy, amount_x |-> amount_x, amount_y |-> amount_y,
     timestamp |-> timestamp, reserve_x |-> reserve_x, reserve_y |-> reserve_y]

encode_u256(value) == [hi |-> 0, lo |-> value]

encode_calldata(trade) ==
    [selector |-> SELECTOR_AFTER_SWAP,
     words |-> << [hi |-> 0, lo |-> IF trade.is_buy THEN 1 ELSE 0],
                  encode_u256(trade.amount_x),
                  encode_u256(trade.amount_y),
                  encode_u256(trade.timestamp),
                  encode_u256(trade.reserve_x),
                  encode_u256(trade.reserve_y) >>]

encode_after_initialize(initial_x, initial_y) ==
    [selector |-> SELECTOR_AFTER_INITIALIZE,
     words |-> << encode_u256(initial_x), encode_u256(initial_y) >>]

NoFees == [some |-> FALSE, bid |-> 0, ask |-> 0]

\* None when the upper 16 bytes are not zero
decode_u256(w) == IF w.hi # 0 THEN [some |-> FALSE, v |-> 0]
                  ELSE [some |-> TRUE, v |-> w.lo]

\* variant: a fee above MAX_FEE is accepted and clamped
decode_fee_pair_clamping(data) ==
    IF Len(data) * 32 < 64 THEN NoFees
    ELSE IF ~decode_u256(data[1]).some \/ ~decode_u256(data[2]).some THEN NoFees
    ELSE [some |-> TRUE, bid |-> clamp_fee(decode_u256(data[1]).v),
          ask |-> clamp_fee(decode_u256(data[2]).v)]

\* types/trade_info.rs lines 116-132
decode_fee_pair(data) ==
    IF Len(data) * 32 < 64 THEN NoFees
    ELSE LET bid_fee == decode_u256(data[1])
             ask_fee == decode_u256(data[2])
         IN  IF ~bid_fee.some \/ ~ask_fee.some THEN NoFees
             ELSE IF bid_fee.v > MAX_FEE \/ ask_fee.v > MAX_FEE THEN NoFees
             ELSE [some |-> TRUE, bid |-> bid_fee.v, ask |-> ask_fee.v]

\* The encoding at the level of bytes (numbers 0 .. 255).  A u128 is the
\* sequence of its 16 big-endian bytes.
ZeroBytes(n) == [i \in 1 .. n |-> 0]

SELECTOR_AFTER_SWAP_bytes == << 194, 186, 187, 87 >>

\* `raw as u128` for an i128 within 32 bits: its two's complement, the sign
\* extended over the upper bytes
as_u128(raw) ==
    [i \in 1 .. 16 |-> IF i <= 12 THEN (IF raw < 0 THEN 255 ELSE 0)
                       ELSE (raw \div 256^(16 - i)) % 256]

\* `buffer[from..from + part.len()].copy_from_slice(part)`
copy_from_slice(buffer, from, part) ==
    [i \in DOMAIN buffer |->
        IF i > from /\ i <= from + Len(part) THEN part[i - from] ELSE buffer[i]]

\* `buffer[from..to].fill(byte)`
fill(buffer, from, to, byte) ==
    [i \in DOMAIN buffer |-> IF i > from /\ i <= to THEN byte ELSE buffer[i]]

\* encode_u256 on the slice buffer[from..from + 32], value a u128
encode_u256_at(buffer, from, value) ==
    copy_from_slice(fill(buffer, from, from + 32, 0), from + 16, value)

\* variant: the word of is_buy is not cleared first
is_buy_written_unfilled(buffer, is_buy) ==
    IF is_buy THEN [buffer EXCEPT ![36] = 1] ELSE buffer

\* lines 57-61
is_buy_written(buffer, is_buy) ==
    IF is_buy THEN [fill(buffer, 4, 36, 0) EXCEPT ![36] = 1]
    ELSE fill(buffer, 4, 36, 0)

\* TradeInfo::encode_calldata into the 196 bytes of buffer
encode_calldata_into(trade, buffer) ==
    encode_u256_at(
        encode_u256_at(
            encode_u256_at(
                encode_u256_at(
                    encode_u256_at(
                        is_buy_written(
                            copy_from_slice(buffer, 0, SELECTOR_AFTER_SWAP_bytes),
                            trade.is_buy),
                        36, as_u128(trade.amount_x)),
                    68, as_u128(trade.amount_y)),
                100, as_u128(trade.timestamp)),
            132, as_u128(trade.reserve_x)),
        164, as_u128(trade.reserve_y))

\* decode_u256 on bytes: None unless 32 bytes with the upper 16 zero
decode_u256_bytes(data) ==
    IF Len(data) # 32 THEN [some |-> FALSE, v |-> << >>]
    ELSE IF \E i \in 1 .. 16 : data[i] # 0 THEN [some |-> FALSE, v |-> << >>]
    ELSE [some |-> TRUE, v |-> SubSeq(data, 17, 32)]

\* ------------------------------------------------------------- strategies
\* The strategy bytecodes are inputs.  A bytecode is described by what its
\* contract does: [deploys, getname, init, swap].  The contract's storage
\* (the EVM database) is a counter.
RampStep == 250 * BPS
RampLen == MAX_FEE \div RampStep + 1

FeePairData(bid, ask) == << [hi |-> 0, lo |-> bid], [hi |-> 0, lo |-> ask] >>

\* The ways a call can end other than with a well-formed fee pair
EvmFailModes == {"revert", "halt", "oog"}
DataFailModes == {"short", "wide", "overmax"}

BadData(mode) ==
    CASE mode = "short"   -> << [hi |-> 0, lo |-> 30 * BPS] >>
      [] mode = "wide"    -> << [hi |-> 1, lo |-> 30 * BPS], [hi |-> 0, lo |-> 30 * BPS] >>
      [] mode = "overmax" -> FeePairData(30 * BPS, MAX_FEE + 1)

\* The contract's execution of one call on storage db: [status, data, db].
\* status is "success", "revert", "halt" or "oog"; storage changes only with
\* a successful call.
CallFailed(mode, db) == [status |-> mode, data |-> << >>, db |-> db]
CallReturned(data, db) == [status |-> "success", data |-> data, db |-> db]

\* a well-formed answer; db1 is the storage after the call of a ramp
GoodAnswer(mode, db, db1) ==
    CASE mode = "fixed" -> CallReturned(FeePairData(30 * BPS, 30 * BPS), db)
      [] mode = "zero"  -> CallReturned(FeePairData(0, 0), db)
      [] mode = "max"   -> CallReturned(FeePairData(MAX_FEE, MAX_FEE), db)
      [] OTHER          -> CallReturned(FeePairData(RampStep * db1,
                                                    MAX_FEE - RampStep * db1), db1)

\* a failing mode fails when trigger holds and answers as a ramp otherwise
FeeCall(mode, db, trigger) ==
    IF mode \in EvmFailModes /\ trigger THEN CallFailed(mode, db)
    ELSE IF mode \in DataFailModes /\ trigger
         THEN CallReturned(BadData(mode), (db + 1) % RampLen)
    ELSE GoodAnswer(mode, db, (db + 1) % RampLen)

\* a "picky" strategy reverts in afterInitialize when the initial X reserve
\* is above 1500 and answers with fixed fees otherwise
PickyLimit == 1500 * WAD

\* A string is the sequence of its UTF-8 bytes (numbers 0 .. 255).
Name_Submission == << 83, 117, 98, 109, 105, 115, 115, 105, 111, 110 >>
Name_Baseline == << 66, 97, 115, 101, 108, 105, 110, 101 >>
Name_Strategy == << 83, 116, 114, 97, 116, 101, 103, 121 >>

\* a number below 2^24 as a 32-byte big-endian word
WordBytes(n) == ZeroBytes(29) \o << (n \div 65536) % 256, (n \div 256) % 256, n % 256 >>

\* the ABI encoding of a string: the offset 32, the length, and the bytes
\* padded with zeroes to whole words
StringData(str) ==
    WordBytes(32) \o WordBytes(Len(str)) \o str \o ZeroBytes((32 - (Len(str) % 32)) % 32)

\* the name a "named" strategy reports in getName()
ReportedName == Name_Strategy

Contract(bytecode, db, calldata) ==
    CASE calldata.selector = SELECTOR_GET_NAME ->
            IF bytecode.getname = "revert" THEN CallFailed("revert", db)
            ELSE IF bytecode.getname = "named"
                 THEN CallReturned(StringData(ReportedName), db)
            ELSE CallReturned(<< >>, db)
      [] calldata.selector = SELECTOR_AFTER_INITIALIZE ->
            IF bytecode.init = "picky"
            THEN IF calldata.words[1].lo > PickyLimit THEN CallFailed("revert", db)
                 ELSE GoodAnswer("fixed", db, db)
            ELSE FeeCall(bytecode.init, db, TRUE)
      [] calldata.selector = SELECTOR_AFTER_SWAP ->
            FeeCall(bytecode.swap, db, calldata.words[1].lo = 1)

\* ------------------------------------------------------------- EVMStrategy
\* evm/strategy.rs.  A host is [name, bytecode, db, seen]: seen lists the
\* calldata of the transactions the host has run on its EVM, in order.
EvmOk(v) == [ok |-> TRUE, err |-> "none", v |-> v]
EvmErr(e) == [ok |-> FALSE, err |-> e, v |-> << >>]

\* the match on the ExecutionResult r of a call: [host, res]
CallResult(host, r) ==
    CASE r.status = "success" -> [host |-> [host EXCEPT !.db = r.db],
                                  res |-> EvmOk(r.data)]
      [] r.status = "revert"  -> [host |-> host, res |-> EvmErr("ExecutionFailed")]
      [] r.status = "oog"     -> [host |-> host, res |-> EvmErr("OutOfGas")]
      [] OTHER                -> [host |-> host, res |-> EvmErr("ExecutionFailed")]

\* EVMStrategy::call: [host, res]
EVMStrategy_call(host, calldata) ==
    CallResult([host EXCEPT !.seen = Append(@, calldata)],
               Contract(host.bytecode, host.db, calldata))

FreshDb == 0

\* EVMStrategy::deploy: a fresh database with the contract installed
deploy(bytecode, name) ==
    IF ~bytecode.deploys THEN EvmErr("DeploymentFailed")
    ELSE EvmOk([name |-> name, bytecode |-> bytecode, db |-> FreshDb,
                seen |-> << >>])

\* a panic of the calling thread: neither Ok nor an EVMError
Panic == [ok |-> FALSE, err |-> "panic", v |-> << >>]

\* u256_to_usize: None unless 32 bytes with the upper 24 zero; the usize is
\* kept as its 8 big-endian bytes
u256_to_usize(data) ==
    IF Len(data) # 32 THEN [some |-> FALSE, v |-> << >>]
    ELSE IF \E i \in 1 .. 24 : data[i] # 0 THEN [some |-> FALSE, v |-> << >>]
    ELSE [some |-> TRUE, v |-> SubSeq(data, 25, 32)]

\* a number below 2^24 as a usize
usize(n) == << 0, 0, 0, 0, 0, (n \div 65536) % 256, (n \div 256) % 256, n % 256 >>

unwrap_or(opt, default) == IF opt.some THEN opt.v ELSE usize(default)

\* the low three bytes of a usize
usize_low(a) == (a[6] * 256 + a[7]) * 256 + a[8]

\* `a <= n` for a usize a and a length n
usize_le(a, n) == (\A i \in 1 .. 5 : a[i] = 0) /\ usize_low(a) <= n

\* `a + n` in 64 bits, byte by byte from the last: [v, carry]; the sum
\* overflowed when carry is not 0, and v is then the wrapped sum
RECURSIVE usize_add_from(_, _, _)
usize_add_from(a, i, carry) ==
    IF i = 0 THEN [v |-> a, carry |-> carry]
    ELSE usize_add_from([a EXCEPT ![i] = (a[i] + carry) % 256], i - 1,
                        (a[i] + carry) \div 256)

usize_add(a, n) == usize_add_from(a, 8, n)

\* String::from_utf8: the number of bytes of the well-formed UTF-8 sequence
\* that starts at byte i, 0 when there is none
Continuation(b) == b >= 128 /\ b <= 191

SecondOf3(lead, b) == CASE lead = 224 -> b >= 160 /\ b <= 191
                        [] lead = 237 -> b >= 128 /\ b <= 159
                        [] OTHER      -> Continuation(b)

SecondOf4(lead, b) == CASE lead = 240 -> b >= 144 /\ b <= 191
                        [] lead = 244 -> b >= 128 /\ b <= 143
                        [] OTHER      -> Continuation(b)

utf8_width(bytes, i) ==
    IF bytes[i] < 128 THEN 1
    ELSE IF /\ bytes[i] >= 194 /\ bytes[i] <= 223 /\ i + 1 <= Len(bytes)
            /\ Continuation(bytes[i + 1]) THEN 2
    ELSE IF /\ bytes[i] >= 224 /\ bytes[i] <= 239 /\ i + 2 <= Len(bytes)
            /\ SecondOf3(bytes[i], bytes[i + 1])
            /\ Continuation(bytes[i + 2]) THEN 3
    ELSE IF /\ bytes[i] >= 240 /\ bytes[i] <= 244 /\ i + 3 <= Len(bytes)
            /\ SecondOf4(bytes[i], bytes[i + 1])
            /\ Continuation(bytes[i + 2]) /\ Continuation(bytes[i + 3]) THEN 4
    ELSE 0

RECURSIVE utf8_from(_, _)
utf8_from(bytes, i) ==
    IF i > Len(bytes) THEN TRUE
    ELSE IF utf8_width(bytes, i) = 0 THEN FALSE
    ELSE utf8_from(bytes, i + utf8_width(bytes, i))

from_utf8(bytes) == utf8_from(bytes, 1)

\* lines 147-153, with offset + 32 <= result.len(): the length word at
\* offset and the name behind it.  When offset + 32 + length overflows, the
\* addition panics in a build with overflow checks; without them the sum
\* wraps below offset + 32, so the comparison passes and the slice
\* result[offset + 32..sum] panics because it starts after its end.
name_at(host, result, offset) ==
    Let(unwrap_or(u256_to_usize(SubSeq(result, offset + 1, offset + 32)), 0),
        LAMBDA length :
        IF usize_add(length, offset + 32).carry # 0 THEN Panic
        ELSE IF ~usize_le(usize_add(length, offset + 32).v, Len(result))
        THEN EvmOk(host)
        ELSE IF ~from_utf8(SubSeq(result, offset + 33,
                                  offset + 32 + usize_low(length)))
        THEN EvmOk(host)
        ELSE EvmOk([host EXCEPT !.name = SubSeq(result, offset + 33,
                                                offset + 32 + usize_low(length))]))

\* lines 144-146: the offset word.  When offset + 32 overflows, the addition
\* panics in a build with overflow checks; without them the sum wraps to
\* less than 32, the comparison passes and the slice
\* result[offset..offset + 32] panics because it starts after its end.
name_decoded(host, result) ==
    IF Len(result) < 64 THEN EvmOk(host)
    ELSE Let(unwrap_or(u256_to_usize(SubSeq(result, 1, 32)), 32),
             LAMBDA offset :
             IF usize_add(offset, 32).carry # 0 THEN Panic
             ELSE IF ~usize_le(usize_add(offset, 32).v, Len(result))
             THEN EvmOk(host)
             ELSE name_at(host, result, usize_low(offset)))

\* EVMStrategy::fetch_name on the result c of the getName() call
fetch_name(c) ==
    IF ~c.res.ok THEN EvmErr(c.res.err) ELSE name_decoded(c.host, c.res.v)

\* EVMStrategy::new: deploy()?, then fetch_name()?
NewDeployed(d) ==
    IF ~d.ok THEN d
    ELSE fetch_name(EVMStrategy_call(d.v, [selector |-> SELECTOR_GET_NAME,
                                           words |-> << >>]))

EVMStrategy_new(bytecode, default_name) == NewDeployed(deploy(bytecode, default_name))

FeeErr(host, e) == [host |-> host, ok |-> FALSE, err |-> e, bid |-> 0, ask |-> 0]

\* decode_fee_pair(..).ok_or_else(InvalidReturnData) on the decoded pair d
FeeDecoded(host, d) ==
    IF ~d.some THEN FeeErr(host, "InvalidReturnData")
    ELSE [host |-> host, ok |-> TRUE, err |-> "none", bid |-> d.bid, ask |-> d.ask]

\* `self.call(..)?` and the decoding of its result c: [host, ok, err, bid, ask]
FeeResult(c) ==
    IF ~c.res.ok THEN FeeErr(c.host, c.res.err)
    ELSE FeeDecoded(c.host, decode_fee_pair(c.res.v))

\* EVMStrategy::after_initialize
after_initialize(host, initial_x, initial_y) ==
    FeeResult(EVMStrategy_call(host, encode_after_initialize(initial_x, initial_y)))

\* EVMStrategy::after_swap
after_swap(host, trade) ==
    FeeResult(EVMStrategy_call(host, encode_calldata(trade)))

\* ------------------------------------------------------------- CFMM
\* amm/cfmm.rs
FeeQuote_new(bid_fee, ask_fee) == [bid_fee |-> bid_fee, ask_fee |-> ask_fee]
FeeQuote_symmetric(fee) == [bid_fee |-> fee, ask_fee |-> fee]

\* variant: a constructor whose default fee is above MAX_FEE
DefaultFeesAboveMax == FeeQuote_symmetric(Wad_from_bps(1001))

DefaultFees == FeeQuote_symmetric(Wad_from_bps(30))

CFMM_new(strategy, reserve_x, reserve_y) ==
    [name |-> strategy.name,
     strategy |-> strategy,
     reserve_x |-> reserve_x,
     reserve_y |-> reserve_y,
     current_fees |-> DefaultFees,
     initialized |-> FALSE,
     accumulated_fees_x |-> F0,
     accumulated_fees_y |-> F0]

\* CFMM::initialize after the host's answer r: [amm, ok, err]
Initialized(amm, r) ==
    IF ~r.ok
    THEN [amm |-> [amm EXCEPT !.strategy = r.host], ok |-> FALSE, err |-> r.err]
    ELSE [amm |-> [amm EXCEPT !.strategy = r.host,
                              !.current_fees = FeeQuote_new(clamp_fee(r.bid),
                                                            clamp_fee(r.ask)),
                              !.initialized = TRUE],
          ok |-> TRUE, err |-> "none"]

initialize(amm) ==
    Initialized(amm, after_initialize(amm.strategy, Wad_from_f64(amm.reserve_x),
                                      Wad_from_f64(amm.reserve_y)))

spot_price(amm) ==
    IF amm.reserve_x = F0 THEN F0 ELSE FDiv(amm.reserve_y, amm.reserve_x)

k_of(amm) == FMul(amm.reserve_x, amm.reserve_y)

NoQuote == << F0, F0 >>

\* gamma = (1.0 - fee).clamp(0.0, 1.0)
Gamma(fee) == FClamp(FSub(F1, fee), F0, F1)

\* `if out > 0.0 { (out, fee_amount) } else { (0.0, 0.0) }`
QuoteOut(out, fee_amount) ==
    IF FGt(out, F0) THEN << out, fee_amount >> ELSE NoQuote

quote_buy_x_gamma(amm, amount_x, fee, gamma) ==
    IF FLe(gamma, F0) THEN NoQuote
    ELSE QuoteOut(FSub(amm.reserve_y,
                       FDiv(k_of(amm), FAdd(amm.reserve_x, FMul(amount_x, gamma)))),
                  FMul(amount_x, fee))

quote_buy_x_fee(amm, amount_x, fee) ==
    quote_buy_x_gamma(amm, amount_x, fee, Gamma(fee))

\* (y_out, fee_amount)
quote_buy_x(amm, amount_x) ==
    IF FLe(amount_x, F0) THEN NoQuote
    ELSE quote_buy_x_fee(amm, amount_x, Wad_to_f64(amm.current_fees.bid_fee))

quote_sell_x_total(net_y, total_y) == << total_y, FSub(total_y, net_y) >>

quote_sell_x_net(net_y, gamma) ==
    IF FLe(net_y, F0) THEN NoQuote
    ELSE quote_sell_x_total(net_y, FDiv(net_y, gamma))

quote_sell_x_gamma(amm, amount_x, gamma) ==
    IF FLe(gamma, F0) THEN NoQuote
    ELSE quote_sell_x_net(FSub(FDiv(k_of(amm), FSub(amm.reserve_x, amount_x)),
                               amm.reserve_y),
                          gamma)

\* (total_y_in, fee_amount)
quote_sell_x(amm, amount_x) ==
    IF FLe(amount_x, F0) \/ FGe(amount_x, amm.reserve_x) THEN NoQuote
    ELSE quote_sell_x_gamma(amm, amount_x,
                            Gamma(Wad_to_f64(amm.current_fees.ask_fee)))

quote_x_for_y_gamma(amm, amount_y, fee, gamma) ==
    IF FLe(gamma, F0) THEN NoQuote
    ELSE QuoteOut(FSub(amm.reserve_x,
                       FDiv(k_of(amm), FAdd(amm.reserve_y, FMul(amount_y, gamma)))),
                  FMul(amount_y, fee))

quote_x_for_y_fee(amm, amount_y, fee) ==
    quote_x_for_y_gamma(amm, amount_y, fee, Gamma(fee))

\* (x_out, fee_amount)
quote_x_for_y(amm, amount_y) ==
    IF FLe(amount_y, F0) THEN NoQuote
    ELSE quote_x_for_y_fee(amm, amount_y, Wad_to_f64(amm.current_fees.ask_fee))

\* CFMM::update_fees after the host's answer r: [amm, host_ok, host_err]
FeesUpdated(amm, r) ==
    IF r.ok
    THEN [amm |-> [amm EXCEPT !.strategy = r.host,
                              !.current_fees = FeeQuote_new(clamp_fee(r.bid),
                                                            clamp_fee(r.ask))],
          host_ok |-> TRUE, host_err |-> "none"]
    ELSE [amm |-> [amm EXCEPT !.strategy = r.host],
          host_ok |-> FALSE, host_err |-> r.err]

\* variant: a host error clears the fee quote instead of keeping it
update_fees_clearing(amm, trade_info) ==
    [FeesUpdated(amm, after_swap(amm.strategy, trade_info))
        EXCEPT !.amm.current_fees =
                  IF @ = amm.current_fees /\ ~after_swap(amm.strategy, trade_info).ok
                  THEN FeeQuote_new(0, 0) ELSE @]

update_fees(amm, trade_info) ==
    FeesUpdated(amm, after_swap(amm.strategy, trade_info))

NoTrade == [some |-> FALSE]

\* What an execute function gives: the pool after it, the Option<TradeResult>
\* it returns, and what the strategy host answered inside update_fees (u).
Executed(u, trade_info, fee_amount) ==
    [amm |-> u.amm,
     ret |-> [some |-> TRUE, trade_info |-> trade_info, fee_amount |-> fee_amount],
     host_ok |-> u.host_ok, host_err |-> u.host_err]

NotExecuted(amm) ==
    [amm |-> amm, ret |-> NoTrade, host_ok |-> TRUE, host_err |-> "not called"]

\* `self.update_fees(&trade_info); Some(TradeResult { trade_info, fee_amount })`
Notify(amm, trade_info, fee_amount) ==
    Executed(update_fees(amm, trade_info), trade_info, fee_amount)

\* the TradeInfo of a trade, built from the pool after the reserve update
Traded(amm, is_buy, amount_x, amount_y, timestamp, fee_amount) ==
    Notify(amm,
           TradeInfo_new(is_buy, Wad_from_f64(amount_x), Wad_from_f64(amount_y),
                         timestamp, Wad_from_f64(amm.reserve_x),
                         Wad_from_f64(amm.reserve_y)),
           fee_amount)

\* variant: the fee is added to the reserve as well as to the bucket
apply_buy_x_gross(amm, net_x, y_out, fee_amount) ==
    [amm EXCEPT !.reserve_x = FAdd(amm.reserve_x, FAdd(net_x, fee_amount)),
                !.accumulated_fees_x = FAdd(amm.accumulated_fees_x, fee_amount),
                !.reserve_y = FSub(amm.reserve_y, y_out)]

\* the reserve update of execute_buy_x; net_x = amount_x - fee_amount
apply_buy_x(amm, net_x, y_out, fee_amount) ==
    [amm EXCEPT !.reserve_x = FAdd(amm.reserve_x, net_x),
                !.accumulated_fees_x = FAdd(amm.accumulated_fees_x, fee_amount),
                !.reserve_y = FSub(amm.reserve_y, y_out)]

execute_buy_x_quoted(amm, amount_x, timestamp, y_out, fee_amount) ==
    IF FLe(y_out, F0) THEN NotExecuted(amm)
    ELSE Traded(apply_buy_x(amm, FSub(amount_x, fee_amount), y_out, fee_amount),
                TRUE, amount_x, y_out, timestamp, fee_amount)

execute_buy_x_quote(amm, amount_x, timestamp, q) ==
    execute_buy_x_quoted(amm, amount_x, timestamp, q[1], q[2])

execute_buy_x(amm, amount_x, timestamp) ==
    execute_buy_x_quote(amm, amount_x, timestamp, quote_buy_x(amm, amount_x))

\* variant: the fee paid in Y is booked to the X bucket
apply_sell_x_wrong_bucket(amm, amount_x, net_y, fee_amount) ==
    [amm EXCEPT !.reserve_x = FSub(amm.reserve_x, amount_x),
                !.reserve_y = FAdd(amm.reserve_y, net_y),
                !.accumulated_fees_x = FAdd(amm.accumulated_fees_x, fee_amount)]

\* the reserve update of execute_sell_x and of execute_buy_x_with_y; net_y is
\* the Y paid less fee_amount
apply_sell_x(amm, amount_x, net_y, fee_amount) ==
    [amm EXCEPT !.reserve_x = FSub(amm.reserve_x, amount_x),
                !.reserve_y = FAdd(amm.reserve_y, net_y),
                !.accumulated_fees_y = FAdd(amm.accumulated_fees_y, fee_amount)]

\* variant: the sale is applied whatever the quote
execute_sell_x_quoted_unguarded(amm, amount_x, timestamp, total_y, fee_amount) ==
    Traded(apply_sell_x(amm, amount_x, FSub(total_y, fee_amount), fee_amount),
           FALSE, amount_x, total_y, timestamp, fee_amount)

execute_sell_x_quoted(amm, amount_x, timestamp, total_y, fee_amount) ==
    IF FLe(total_y, F0) THEN NotExecuted(amm)
    ELSE Traded(apply_sell_x(amm, amount_x, FSub(total_y, fee_amount), fee_amount),
                FALSE, amount_x, total_y, timestamp, fee_amount)

execute_sell_x_quote(amm, amount_x, timestamp, q) ==
    execute_sell_x_quoted(amm, amount_x, timestamp, q[1], q[2])

execute_sell_x(amm, amount_x, timestamp) ==
    execute_sell_x_quote(amm, amount_x, timestamp, quote_sell_x(amm, amount_x))

\* variant: a purchase of X paid in Y is reported as the pool buying X
execute_buy_x_with_y_quoted_as_buy(amm, amount_y, timestamp, x_out, fee_amount) ==
    IF FLe(x_out, F0) THEN NotExecuted(amm)
    ELSE Traded(apply_sell_x(amm, x_out, FSub(amount_y, fee_amount), fee_amount),
                TRUE, x_out, amount_y, timestamp, fee_amount)

execute_buy_x_with_y_quoted(amm, amount_y, timestamp, x_out, fee_amount) ==
    IF FLe(x_out, F0) THEN NotExecuted(amm)
    ELSE Traded(apply_sell_x(amm, x_out, FSub(amount_y, fee_amount), fee_amount),
                FALSE, x_out, amount_y, timestamp, fee_amount)

execute_buy_x_with_y_quote(amm, amount_y, timestamp, q) ==
    execute_buy_x_with_y_quoted(amm, amount_y, timestamp, q[1], q[2])

execute_buy_x_with_y(amm, amount_y, timestamp) ==
    execute_buy_x_with_y_quote(amm, amount_y, timestamp, quote_x_for_y(amm, amount_y))

\* ------------------------------------------------------------- random numbers
\* Pcg64::seed_from_u64: a generator is its seed and the number of samples
\* drawn from it so far; every sample is a function of the two.  A draw is a
\* point of the unit interval, one of Quantiles equally spaced points
\* (2u+1)/(2*Quantiles), from which a distribution samples by its quantile.
Quantiles == 4

seed_from_u64(s) == [seed |-> s, n |-> 0]

rng_next(rng) == [rng EXCEPT !.n = @ + 1]

rng_draw(rng) ==
    (rng.seed * 3 + rng.n * (rng.seed + 1) + (rng.n * rng.n) \div 2) % Quantiles

\* StandardNormal.sample: quantiles of N(0,1) at 1/8, 3/8, 5/8, 7/8
StandardNormal_sample(u) ==
    CASE u = 0 -> FNeg(FRatio(115, 100))
      [] u = 1 -> FNeg(FRatio(32, 100))
      [] u = 2 -> FRatio(32, 100)
      [] OTHER -> FRatio(115, 100)

\* Poisson.sample for lambda = 1 (the arrival rate of ArrivalRate): quantiles
\* at the same points
Poisson_sample(u) ==
    CASE u = 0 -> 0
      [] u = 1 -> 1
      [] u = 2 -> 1
      [] OTHER -> 2

\* Rng::gen::<f64>()
gen_f64(u) == FRatio(2 * u + 1, 2 * Quantiles)

\* f64::exp, by its expansion to the second order: 1 + x + x^2/2 (> 0)
FExp(x) == FAdd(FAdd(F1, x), FMul(FRatio(1, 2), FMul(x, x)))

\* ------------------------------------------------------------- GBMPriceProcess
\* market/price_process.rs
GBMPriceProcess_new(initial_price, mu, sigma, dt, seed) ==
    [current_price |-> initial_price,
     drift_term |-> FMul(FSub(mu, FMul(FMul(FRatio(1, 2), sigma), sigma)), dt),
     vol_term |-> FMul(sigma, FSqrt(dt)),
     rng |-> seed_from_u64(seed)]

\* exponent = drift_term + vol_term * z
gbm_exponent(pp, z) == FAdd(pp.drift_term, FMul(pp.vol_term, z))

\* GBMPriceProcess::step: the process after the step; the price it returns is
\* its current_price
price_step(pp) ==
    [pp EXCEPT !.current_price =
                   FMul(@, FExp(gbm_exponent(pp, StandardNormal_sample(rng_draw(pp.rng))))),
               !.rng = rng_next(@)]

\* ------------------------------------------------------------- RetailTrader
\* market/retail.rs.  The LogNormal of mean m and log-space sigma s samples
\* exp(mu + s z) with mu = ln(m) - s^2/2, carried as m * exp(s z - s^2/2).
RetailTrader_new(arrival_rate, mean_size, size_sigma, buy_prob, seed) ==
    [buy_prob |-> buy_prob,
     rng |-> seed_from_u64(seed),
     poisson |-> FMax(arrival_rate, FRatio(1, 100)),
     lognormal |-> [mean |-> FMax(mean_size, FRatio(1, 100)),
                    sigma |-> FMax(size_sigma, FRatio(1, 100))]]

LogNormal_shift(sigma) == FMul(FMul(FRatio(1, 2), sigma), sigma)

LogNormal_sample(ln, u) ==
    FMul(ln.mean,
         FExp(FSub(FMul(ln.sigma, StandardNormal_sample(u)), LogNormal_shift(ln.sigma))))

\* one order: the size from one sample, the side from the next
RetailOrder(rt, rng) ==
    [side |-> IF FLt(gen_f64(rng_draw(rng_next(rng))), rt.buy_prob) THEN "buy" ELSE "sell",
     size |-> LogNormal_sample(rt.lognormal, rng_draw(rng))]

\* the loop `for _ in 0..n_arrivals`: [orders, rng]
RECURSIVE generate_loop(_, _, _, _)
generate_loop(rt, n_arrivals, orders, rng) ==
    IF n_arrivals = 0 THEN [orders |-> orders, rng |-> rng]
    ELSE generate_loop(rt, n_arrivals - 1, Append(orders, RetailOrder(rt, rng)),
                       rng_next(rng_next(rng)))

\* RetailTrader::generate_orders: [orders, rng]
generate_orders(rt) ==
    generate_loop(rt, Poisson_sample(rng_draw(rt.rng)), << >>, rng_next(rt.rng))

\* ------------------------------------------------------------- Arbitrageur
\* market/arbitrageur.rs.  An attempt gives [amm, arb]: the pool after it and
\* the Option<ArbResult>.
NoArb == [some |-> FALSE]

ArbNone(amm) == [amm |-> amm, arb |-> NoArb]

\* `let _trade = amm.execute_..(amount_x, timestamp)?; Some(ArbResult {..})`
ArbExecuted(r, profit, side, amount_x, amount_y) ==
    IF ~r.ret.some THEN ArbNone(r.amm)
    ELSE [amm |-> r.amm,
          arb |-> [some |-> TRUE, amm_name |-> r.amm.name, profit |-> profit,
                   side |-> side, amount_x |-> amount_x, amount_y |-> amount_y]]

\* variant: the trade is made whatever its profit
compute_buy_arb_unprofitable(amm, fair_price, timestamp) ==
    Let(FSub(F1, Wad_to_f64(amm.current_fees.ask_fee)), LAMBDA gamma :
    IF FLe(gamma, F0) \/ FLe(fair_price, F0) THEN ArbNone(amm)
    ELSE
    Let(FSub(amm.reserve_x, FSqrt(FDiv(k_of(amm), FMul(gamma, fair_price)))),
        LAMBDA optimal_x :
    IF FLe(optimal_x, F0) THEN ArbNone(amm)
    ELSE
    Let(FMin(optimal_x, FMul(amm.reserve_x, FRatio(99, 100))), LAMBDA amount_x :
    Let(quote_sell_x(amm, amount_x)[1], LAMBDA total_y :
    IF FLe(total_y, F0) THEN ArbNone(amm)
    ELSE ArbExecuted(execute_sell_x(amm, amount_x, timestamp),
                     FSub(FMul(amount_x, fair_price), total_y), "sell",
                     amount_x, total_y)))))

\* lines 54-98

compute_buy_arb(amm, fair_price, timestamp) ==
    Let(FSub(F1, Wad_to_f64(amm.current_fees.ask_fee)), LAMBDA gamma :
    IF FLe(gamma, F0) \/ FLe(fair_price, F0) THEN ArbNone(amm)
    ELSE
    Let(FSub(amm.reserve_x, FSqrt(FDiv(k_of(amm), FMul(gamma, fair_price)))),
        LAMBDA optimal_x :
    IF FLe(optimal_x, F0) THEN ArbNone(amm)
    ELSE
    Let(FMin(optimal_x, FMul(amm.reserve_x, FRatio(99, 100))), LAMBDA amount_x :
    Let(quote_sell_x(amm, amount_x)[1], LAMBDA total_y :
    IF FLe(total_y, F0) THEN ArbNone(amm)
    ELSE
    Let(FSub(FMul(amount_x, fair_price), total_y), LAMBDA profit :
    IF FLe(profit, F0) THEN ArbNone(amm)
    ELSE ArbExecuted(execute_sell_x(amm, amount_x, timestamp),
                     profit, "sell", amount_x, total_y))))))

\* variant: the size is computed with the fee of the other side
compute_sell_arb_at_ask_fee(amm, fair_price, timestamp) ==
    Let(FSub(F1, Wad_to_f64(amm.current_fees.ask_fee)), LAMBDA gamma :
    IF FLe(gamma, F0) \/ FLe(fair_price, F0) THEN ArbNone(amm)
    ELSE
    Let(FDiv(FSub(FSqrt(FDiv(FMul(k_of(amm), gamma), fair_price)), amm.reserve_x),
             gamma),
        LAMBDA amount_x :
    IF FLe(amount_x, F0) THEN ArbNone(amm)
    ELSE
    Let(quote_buy_x(amm, amount_x)[1], LAMBDA y_out :
    IF FLe(y_out, F0) THEN ArbNone(amm)
    ELSE
    Let(FSub(y_out, FMul(amount_x, fair_price)), LAMBDA profit :
    IF FLe(profit, F0) THEN ArbNone(amm)
    ELSE ArbExecuted(execute_buy_x(amm, amount_x, timestamp),
                     profit, "buy", amount_x, y_out)))))

\* lines 104-147
compute_sell_arb(amm, fair_price, timestamp) ==
    Let(FSub(F1, Wad_to_f64(amm.current_fees.bid_fee)), LAMBDA gamma :
    IF FLe(gamma, F0) \/ FLe(fair_price, F0) THEN ArbNone(amm)
    ELSE
    Let(FDiv(FSub(FSqrt(FDiv(FMul(k_of(amm), gamma), fair_price)), amm.reserve_x),
             gamma),
        LAMBDA amount_x :
    IF FLe(amount_x, F0) THEN ArbNone(amm)
    ELSE
    Let(quote_buy_x(amm, amount_x)[1], LAMBDA y_out :
    IF FLe(y_out, F0) THEN ArbNone(amm)
    ELSE
    Let(FSub(y_out, FMul(amount_x, fair_price)), LAMBDA profit :
    IF FLe(profit, F0) THEN ArbNone(amm)
    ELSE ArbExecuted(execute_buy_x(amm, amount_x, timestamp),
                     profit, "buy", amount_x, y_out)))))

execute_arb(amm, fair_price, timestamp) ==
    Let(FDiv(amm.reserve_y, amm.reserve_x), LAMBDA spot :
    IF FLt(spot, fair_price) THEN compute_buy_arb(amm, fair_price, timestamp)
    ELSE IF FGt(spot, fair_price) THEN compute_sell_arb(amm, fair_price, timestamp)
    ELSE ArbNone(amm))

\* ------------------------------------------------------------- OrderRouter
\* market/router.rs, for the two pools of a match.  Routing gives
\* [amms, trades]: the pools after it and the RoutedTrades.
MIN_AMOUNT == FRatio(1, 10000)

\* variant: the closed form without `.max(0.0).min(total)`
split_two_unclamped(in1, out1, gamma1, in2, out2, gamma2, total) ==
    Let(FSqrt(FMul(FMul(out1, gamma1), in1)), LAMBDA a1 :
    Let(FSqrt(FMul(FMul(out2, gamma2), in2)), LAMBDA a2 :
    IF a2 = F0 THEN << total, F0 >>
    ELSE
    Let(FDiv(a1, a2), LAMBDA r :
    Let(FSub(FMul(r, FAdd(in2, FMul(gamma2, total))), in1), LAMBDA numerator :
    Let(FAdd(gamma1, FMul(r, gamma2)), LAMBDA denominator :
    Let(IF denominator = F0 THEN FDiv(total, FromInt(2))
        ELSE FDiv(numerator, denominator),
        LAMBDA amount1 :
    << amount1, FSub(total, amount1) >>))))))

\* the split of a total between two pools whose reserves on the side paid
\* in are in1, in2 and on the other side out1, out2
split_two(in1, out1, gamma1, in2, out2, gamma2, total) ==
    Let(FSqrt(FMul(FMul(out1, gamma1), in1)), LAMBDA a1 :
    Let(FSqrt(FMul(FMul(out2, gamma2), in2)), LAMBDA a2 :
    IF a2 = F0 THEN << total, F0 >>
    ELSE
    Let(FDiv(a1, a2), LAMBDA r :
    Let(FSub(FMul(r, FAdd(in2, FMul(gamma2, total))), in1), LAMBDA numerator :
    Let(FAdd(gamma1, FMul(r, gamma2)), LAMBDA denominator :
    Let(FMin(FMax(IF denominator = F0 THEN FDiv(total, FromInt(2))
                  ELSE FDiv(numerator, denominator), F0), total),
        LAMBDA amount1 :
    << amount1, FSub(total, amount1) >>))))))

split_buy_two_amms(amm1, amm2, total_y) ==
    split_two(amm1.reserve_y, amm1.reserve_x,
              FSub(F1, Wad_to_f64(amm1.current_fees.ask_fee)),
              amm2.reserve_y, amm2.reserve_x,
              FSub(F1, Wad_to_f64(amm2.current_fees.ask_fee)), total_y)

split_sell_two_amms(amm1, amm2, total_x) ==
    split_two(amm1.reserve_x, amm1.reserve_y,
              FSub(F1, Wad_to_f64(amm1.current_fees.bid_fee)),
              amm2.reserve_x, amm2.reserve_y,
              FSub(F1, Wad_to_f64(amm2.current_fees.bid_fee)), total_x)

\* a price that is not a number of the model: y/0 is infinite and 0/0 is NaN
\* in f64.  Either makes every gap it enters NaN.
NotFinite == [s |-> 0, m |-> 1, e |-> 0]

\* y_new / (k / y_new) of f64
price_of(k, y_new) ==
    IF y_new = F0 \/ k = F0 THEN NotFinite ELSE FDiv(y_new, FDiv(k, y_new))

\* (k / x_new) / x_new of f64
price_at(k, x_new) ==
    IF x_new = F0 THEN NotFinite ELSE FDiv(FDiv(k, x_new), x_new)

\* the marginal price y'/x' of a pool once amount_y more Y is spent on it
compute_marginal_price_buy(amm, amount_y) ==
    price_of(k_of(amm),
             FAdd(amm.reserve_y,
                  FMul(FSub(F1, Wad_to_f64(amm.current_fees.ask_fee)), amount_y)))

\* the marginal price y'/x' of a pool once amount_x more X is sold to it
compute_marginal_price_sell(amm, amount_x) ==
    price_at(k_of(amm),
             FAdd(amm.reserve_x,
                  FMul(FSub(F1, Wad_to_f64(amm.current_fees.bid_fee)), amount_x)))

RoutedTrade(amm_name, amount_y, amount_x, amm_buys_x) ==
    [amm_name |-> amm_name, amount_y |-> amount_y, amount_x |-> amount_x,
     amm_buys_x |-> amm_buys_x]

\* variant: the pool the trade ran on is stored in the next pool's place
routed_push_misplaced(rt, i, r, side, amount) ==
    IF ~r.ret.some THEN [rt EXCEPT !.amms[i] = r.amm]
    ELSE [amms |-> [rt.amms EXCEPT ![(i % Len(rt.amms)) + 1] = r.amm],
          trades |-> Append(rt.trades,
               IF side = "buy"
               THEN RoutedTrade(r.amm.name, amount,
                                Wad_to_f64(r.ret.trade_info.amount_x), FALSE)
               ELSE RoutedTrade(r.amm.name, Wad_to_f64(r.ret.trade_info.amount_y),
                                amount, TRUE))]

\* `if amount > MIN_AMOUNT { if let Some(result) = amm.execute..(amount) {
\* trades.push(..) } }` on the pool at index i, r being what execute gives
routed_push(rt, i, r, side, amount) ==
    IF ~r.ret.some THEN [rt EXCEPT !.amms[i] = r.amm]
    ELSE [amms |-> [rt.amms EXCEPT ![i] = r.amm],
          trades |-> Append(rt.trades,
               IF side = "buy"
               THEN RoutedTrade(r.amm.name, amount,
                                Wad_to_f64(r.ret.trade_info.amount_x), FALSE)
               ELSE RoutedTrade(r.amm.name, Wad_to_f64(r.ret.trade_info.amount_y),
                                amount, TRUE))]

route_leg(rt, i, side, amount, timestamp) ==
    IF ~FGt(amount, MIN_AMOUNT) THEN rt
    ELSE routed_push(rt, i,
                     IF side = "buy"
                     THEN execute_buy_x_with_y(rt.amms[i], amount, timestamp)
                     ELSE execute_buy_x(rt.amms[i], amount, timestamp),
                     side, amount)

\* both legs of a split, the first pool's first
route_split(amms, side, split, timestamp) ==
    route_leg(route_leg([amms |-> amms, trades |-> << >>], 1, side, split[1], timestamp),
              2, side, split[2], timestamp)

route_to_two_amms(order, amms, fair_price, timestamp) ==
    IF order.side = "buy"
    THEN route_split(amms, "buy", split_buy_two_amms(amms[1], amms[2], order.size),
                     timestamp)
    ELSE route_split(amms, "sell",
                     split_sell_two_amms(amms[1], amms[2],
                                         FDiv(order.size, fair_price)),
                     timestamp)

\* ---- route_to_many_amms
MAX_ITERATIONS == 10
CONVERGENCE_THRESHOLD == FRatio(1, 1000)

\* `(prices[i] - prices[j]).abs() / prices[i].max(prices[j])`: NaN when a
\* price is not finite or both are 0
price_gap(price_i, price_j) ==
    IF price_i = NotFinite \/ price_j = NotFinite THEN NotFinite
    ELSE IF FMax(price_i, price_j) = F0 THEN NotFinite
    ELSE FDiv(FAbs(FSub(price_i, price_j)), FMax(price_i, price_j))

\* the two loops of find_max_price_gap at (i, j); `gap > max_gap` is false
\* of a NaN gap
RECURSIVE gap_scan(_, _, _, _)
gap_scan(prices, i, j, best) ==
    IF i > Len(prices) THEN best
    ELSE IF j > Len(prices) THEN gap_scan(prices, i + 1, i + 2, best)
    ELSE gap_scan(prices, i, j + 1,
             Let(price_gap(prices[i], prices[j]), LAMBDA gap :
                 IF gap # NotFinite /\ FGt(gap, best.max_gap)
                 THEN [best_pair |-> << i, j >>, max_gap |-> gap]
                 ELSE best))

find_max_price_gap(prices) ==
    gap_scan(prices, 1, 2, [best_pair |-> << 1, 2 >>, max_gap |-> F0])

\* `vec![v; n]`
RECURSIVE vec(_, _)
vec(v, n) == IF n = 0 THEN << >> ELSE Append(vec(v, n - 1), v)

\* `(0..n).map(|i| ..).collect()` up to the pool at index n
RECURSIVE marginal_prices_to(_, _, _, _)
marginal_prices_to(amms, side, allocations, n) ==
    IF n = 0 THEN << >>
    ELSE Append(marginal_prices_to(amms, side, allocations, n - 1),
                IF side = "buy"
                THEN compute_marginal_price_buy(amms[n], allocations[n])
                ELSE compute_marginal_price_sell(amms[n], allocations[n]))

marginal_prices(amms, side, allocations) ==
    marginal_prices_to(amms, side, allocations, Len(amms))

\* `allocations[idx1] = new_alloc1; allocations[idx2] = new_alloc2`
rebalanced(amms, side, allocations, idx1, idx2) ==
    Let(IF side = "buy"
        THEN split_buy_two_amms(amms[idx1], amms[idx2],
                                FAdd(allocations[idx1], allocations[idx2]))
        ELSE split_sell_two_amms(amms[idx1], amms[idx2],
                                 FAdd(allocations[idx1], allocations[idx2])),
        LAMBDA split :
        [allocations EXCEPT ![idx1] = split[1], ![idx2] = split[2]])

\* `for _iteration in 0..MAX_ITERATIONS`, from one iteration on.  The loop
\* gives [allocations, passes]: the final allocations and, for each pass
\* through the body, the allocations it began with, the prices and the
\* pair and gap it found.
RECURSIVE rebalance_from(_, _, _, _, _)
rebalance_from(amms, side, allocations, iteration, passes) ==
    IF iteration >= MAX_ITERATIONS
    THEN [allocations |-> allocations, passes |-> passes]
    ELSE
    Let(marginal_prices(amms, side, allocations), LAMBDA prices :
    Let(find_max_price_gap(prices), LAMBDA found :
    Let(Append(passes, [allocations |-> allocations, prices |-> prices,
                        best_pair |-> found.best_pair, max_gap |-> found.max_gap]),
        LAMBDA seen :
    IF FLt(found.max_gap, CONVERGENCE_THRESHOLD)
    THEN [allocations |-> allocations, passes |-> seen]
    ELSE rebalance_from(amms, side,
                        rebalanced(amms, side, allocations,
                                   found.best_pair[1], found.best_pair[2]),
                        iteration + 1, seen))))

\* variant: the rule of the two-pool path, `if amount > MIN_AMOUNT`
many_leg_above_floor(rt, i, side, amount, timestamp) ==
    IF ~FGt(amount, MIN_AMOUNT) THEN rt
    ELSE routed_push(rt, i,
                     IF side = "buy"
                     THEN execute_buy_x_with_y(rt.amms[i], amount, timestamp)
                     ELSE execute_buy_x(rt.amms[i], amount, timestamp),
                     side, amount)

\* `if amount < MIN_AMOUNT { continue; }` and the execute of one pool
many_leg(rt, i, side, amount, timestamp) ==
    IF FLt(amount, MIN_AMOUNT) THEN rt
    ELSE routed_push(rt, i,
                     IF side = "buy"
                     THEN execute_buy_x_with_y(rt.amms[i], amount, timestamp)
                     ELSE execute_buy_x(rt.amms[i], amount, timestamp),
                     side, amount)

RECURSIVE many_legs(_, _, _, _, _)
many_legs(rt, i, side, allocations, timestamp) ==
    IF i > Len(allocations) THEN rt
    ELSE many_legs(many_leg(rt, i, side, allocations[i], timestamp), i + 1, side,
                   allocations, timestamp)

\* the iteration of route_to_many_amms on three or more pools: the routing
\* [amms, trades], with the final allocations and the passes of the loop
many_routed(order, amms, fair_price, timestamp) ==
    Let(IF order.side = "buy" THEN order.size ELSE FDiv(order.size, fair_price),
        LAMBDA total_amount :
    Let(rebalance_from(amms, order.side,
                       vec(FDiv(total_amount, FromInt(Len(amms))), Len(amms)),
                       0, << >>),
        LAMBDA loop :
    Let(many_legs([amms |-> amms, trades |-> << >>], 1, order.side,
                  loop.allocations, timestamp),
        LAMBDA rt :
        [amms |-> rt.amms, trades |-> rt.trades, total_amount |-> total_amount,
         allocations |-> loop.allocations, passes |-> loop.passes])))

route_to_many_amms(order, amms, fair_price, timestamp) ==
    IF Len(amms) = 2 THEN route_to_two_amms(order, amms, fair_price, timestamp)
    ELSE Let(many_routed(order, amms, fair_price, timestamp), LAMBDA rt :
             [amms |-> rt.amms, trades |-> rt.trades])

\* OrderRouter::route_order on two pools or more
route_order(order, amms, fair_price, timestamp) ==
    IF Len(amms) = 2 THEN route_to_two_amms(order, amms, fair_price, timestamp)
    ELSE route_to_many_amms(order, amms, fair_price, timestamp)

\* OrderRouter::route_orders, order by order
RECURSIVE route_orders_from(_, _, _, _, _)
route_orders_from(orders, i, rt, fair_price, timestamp) ==
    IF i > Len(orders) THEN rt
    ELSE route_orders_from(orders, i + 1,
             Let(route_order(orders[i], rt.amms, fair_price, timestamp), LAMBDA r :
                 [amms |-> r.amms, trades |-> rt.trades \o r.trades]),
             fair_price, timestamp)

route_orders(orders, amms, fair_price, timestamp) ==
    route_orders_from(orders, 1, [amms |-> amms, trades |-> << >>], fair_price, timestamp)

\* ------------------------------------------------------------- SimulationEngine
\* simulation/engine.rs.  The state of a run is the record of its locals;
\* pc is the place in run: "begin" (run called), "price", "arb" (with the
\* index i of the pool the loop is at), "retail", "capture" inside step t,
\* "finish" after the loop, and "done" or "error" once run has returned.
\* "submission" and "normalizer" as UTF-8 bytes
SubmissionName == << 115, 117, 98, 109, 105, 115, 115, 105, 111, 110 >>
BaselineName == << 110, 111, 114, 109, 97, 108, 105, 122, 101, 114 >>
Names == << SubmissionName, BaselineName >>

NoSeed == [some |-> FALSE, v |-> 0]
SomeSeed(v) == [some |-> TRUE, v |-> v]

\* config.seed.unwrap_or(0)
seed_of(config) == IF config.seed.some THEN config.seed.v ELSE 0

Zeroes == [name \in {SubmissionName, BaselineName} |-> F0]

\* run has been called with its two strategies
SimulationEngine_run(config, submission, baseline) ==
    [pc |-> "begin", config |-> config, submission |-> submission,
     baseline |-> baseline]

\* variant: the pools keep the names their strategies report
Renamed_reported(amm, name) == amm

\* lines 82 and 89: `amm.name = name`
Renamed(amm, name) == [amm EXCEPT !.name = name]

\* run has returned Err(SimulationError::EVMError(..)); amms are the pools as
\* the failure left them
RunFailed(config, amms, err) ==
    [pc |-> "error", config |-> config, amms |-> amms, err |-> err]

\* the locals after both pools are initialized (lines 99-134)
RunLocals(config, seed, amms) ==
    Let(GBMPriceProcess_new(config.initial_price, config.gbm_mu, config.gbm_sigma,
                            config.gbm_dt, seed),
        LAMBDA price_process :
    [pc |-> IF config.n_steps > 0 THEN "price" ELSE "finish",
     config |-> config,
     seed |-> seed,
     price_process |-> price_process,
     retail_trader |-> RetailTrader_new(config.retail_arrival_rate,
                                        config.retail_mean_size,
                                        config.retail_size_sigma,
                                        config.retail_buy_prob, seed + 1),
     amms |-> amms,
     initial_fair_price |-> price_process.current_price,
     initial_reserves |-> [name \in {SubmissionName, BaselineName} |->
                              IF name = SubmissionName
                              THEN << amms[1].reserve_x, amms[1].reserve_y >>
                              ELSE << amms[2].reserve_x, amms[2].reserve_y >>],
     edges |-> Zeroes,
     arb_volume_y |-> Zeroes,
     retail_volume_y |-> Zeroes,
     cumulative_bid_fees |-> Zeroes,
     cumulative_ask_fees |-> Zeroes,
     steps |-> << >>,
     t |-> 0,
     i |-> 1,
     fair_price |-> price_process.current_price,
     orders |-> << >>])

\* variant: an error of the baseline's initialize is dropped
run_begin_lenient(sim) ==
    Let(Renamed(CFMM_new(sim.submission, sim.config.initial_x, sim.config.initial_y),
                SubmissionName),
        LAMBDA amm_submission :
    Let(Renamed(CFMM_new(sim.baseline, sim.config.initial_x, sim.config.initial_y),
                BaselineName),
        LAMBDA amm_baseline :
    Let(initialize(amm_submission), LAMBDA r1 :
    IF ~r1.ok THEN RunFailed(sim.config, << r1.amm, amm_baseline >>, r1.err)
    ELSE RunLocals(sim.config, seed_of(sim.config),
                   << r1.amm, initialize(amm_baseline).amm >>))))

\* lines 51-134: the pools are made, named and initialized, the submission's
\* first; the first error returns
run_begin(sim) ==
    Let(Renamed(CFMM_new(sim.submission, sim.config.initial_x, sim.config.initial_y),
                SubmissionName),
        LAMBDA amm_submission :
    Let(Renamed(CFMM_new(sim.baseline, sim.config.initial_x, sim.config.initial_y),
                BaselineName),
        LAMBDA amm_baseline :
    Let(initialize(amm_submission), LAMBDA r1 :
    IF ~r1.ok THEN RunFailed(sim.config, << r1.amm, amm_baseline >>, r1.err)
    ELSE
    Let(initialize(amm_baseline), LAMBDA r2 :
    IF ~r2.ok THEN RunFailed(sim.config, << r1.amm, r2.amm >>, r2.err)
    ELSE RunLocals(sim.config, seed_of(sim.config), << r1.amm, r2.amm >>)))))

\* line 138: `let fair_price = price_process.step()`
run_price(sim) ==
    Let(price_step(sim.price_process), LAMBDA price_process :
    [sim EXCEPT !.pc = "arb", !.i = 1,
                !.price_process = price_process,
                !.fair_price = price_process.current_price])

\* variant: the arbitrageur's profit is credited to the pool's edge
arb_booked_crediting(sim, r) ==
    IF ~r.arb.some THEN [sim EXCEPT !.amms[sim.i] = r.amm]
    ELSE [sim EXCEPT !.amms[sim.i] = r.amm,
                     !.arb_volume_y[r.arb.amm_name] = FAdd(@, r.arb.amount_y),
                     !.edges[r.arb.amm_name] = FAdd(@, r.arb.profit)]

\* lines 143-146 for the result arb of an attempt on a pool
arb_booked(sim, r) ==
    IF ~r.arb.some THEN [sim EXCEPT !.amms[sim.i] = r.amm]
    ELSE [sim EXCEPT !.amms[sim.i] = r.amm,
                     !.arb_volume_y[r.arb.amm_name] = FAdd(@, r.arb.amount_y),
                     !.edges[r.arb.amm_name] = FAdd(@, FNeg(r.arb.profit))]

\* variant: the price process is stepped again once a pool was arbitraged
run_arb_stepping(sim) ==
    Let(execute_arb(sim.amms[sim.i], sim.fair_price, sim.t), LAMBDA r :
    Let(IF r.arb.some THEN run_price(sim) ELSE sim, LAMBDA stepped :
    [arb_booked(stepped, r) EXCEPT !.i = sim.i + 1,
                               !.pc = IF sim.i + 1 > Len(sim.amms) THEN "retail"
                                      ELSE "arb"]))

\* lines 141-148: one turn of `for amm in amms.iter_mut()`
run_arb(sim) ==
    [arb_booked(sim, execute_arb(sim.amms[sim.i], sim.fair_price, sim.t))
        EXCEPT !.i = @ + 1,
               !.pc = IF sim.i + 1 > Len(sim.amms) THEN "retail" ELSE "arb"]

\* variant: the two sides of the trade are taken for each other
trade_edge_swapped(trade, fair_price) ==
    IF trade.amm_buys_x
    THEN FSub(trade.amount_y, FMul(trade.amount_x, fair_price))
    ELSE FSub(FMul(trade.amount_x, fair_price), trade.amount_y)

\* lines 155-159
trade_edge(trade, fair_price) ==
    IF trade.amm_buys_x
    THEN FSub(FMul(trade.amount_x, fair_price), trade.amount_y)
    ELSE FSub(trade.amount_y, FMul(trade.amount_x, fair_price))

\* lines 153-162: `for trade in routed_trades`
RECURSIVE trades_booked(_, _, _)
trades_booked(sim, trades, j) ==
    IF j > Len(trades) THEN sim
    ELSE trades_booked(
             [sim EXCEPT !.retail_volume_y[trades[j].amm_name] =
                             FAdd(@, trades[j].amount_y),
                         !.edges[trades[j].amm_name] =
                             FAdd(@, trade_edge(trades[j], sim.fair_price))],
             trades, j + 1)

\* variant: the retail trades of step t are stamped t + 1
run_retail_stamped_late(sim) ==
    Let(generate_orders(sim.retail_trader), LAMBDA g :
    Let(route_orders(g.orders, sim.amms, sim.fair_price, sim.t + 1), LAMBDA routed :
    trades_booked([sim EXCEPT !.pc = "capture",
                              !.retail_trader.rng = g.rng,
                              !.orders = g.orders,
                              !.amms = routed.amms],
                  routed.trades, 1)))

\* lines 151-162: the orders of the step are generated and routed
run_retail(sim) ==
    Let(generate_orders(sim.retail_trader), LAMBDA g :
    Let(route_orders(g.orders, sim.amms, sim.fair_price, sim.t), LAMBDA routed :
    trades_booked([sim EXCEPT !.pc = "capture",
                              !.retail_trader.rng = g.rng,
                              !.orders = g.orders,
                              !.amms = routed.amms],
                  routed.trades, 1)))

\* the value of x units of X and y units of Y at a price
value_at(x, y, price) == FAdd(FMul(x, price), y)

\* variant: the accumulated fees are left out of the value
pnl_of_reserves_only(amm, init, initial_fair_price, fair_price) ==
    FSub(value_at(amm.reserve_x, amm.reserve_y, fair_price),
         value_at(init[1], init[2], initial_fair_price))

\* lines 244-251 and 197-204: reserves plus accumulated fees at fair_price,
\* less the initial reserves at the initial fair price
pnl_of(amm, init, initial_fair_price, fair_price) ==
    FSub(FAdd(value_at(amm.reserve_x, amm.reserve_y, fair_price),
              value_at(amm.accumulated_fees_x, amm.accumulated_fees_y, fair_price)),
         value_at(init[1], init[2], initial_fair_price))

\* the pool named name
amm_named(amms, name) == IF name = SubmissionName THEN amms[1] ELSE amms[2]

capture_step(timestamp, fair_price, amms, names, initial_reserves, initial_fair_price) ==
    [timestamp |-> timestamp,
     fair_price |-> fair_price,
     spot_prices |-> [name \in {names[1], names[2]} |->
                         spot_price(amm_named(amms, name))],
     pnls |-> [name \in {names[1], names[2]} |->
                  pnl_of(amm_named(amms, name), initial_reserves[name],
                         initial_fair_price, fair_price)],
     fees |-> [name \in {names[1], names[2]} |->
                  << Wad_to_f64(amm_named(amms, name).current_fees.bid_fee),
                     Wad_to_f64(amm_named(amms, name).current_fees.ask_fee) >>]]

\* lines 165-180, and the loop's `t + 1`
run_capture(sim) ==
    Let(capture_step(sim.t, sim.fair_price, sim.amms, Names, sim.initial_reserves,
                     sim.initial_fair_price),
        LAMBDA step :
    [sim EXCEPT !.cumulative_bid_fees =
                    [name \in DOMAIN @ |-> FAdd(@[name], step.fees[name][1])],
                !.cumulative_ask_fees =
                    [name \in DOMAIN @ |-> FAdd(@[name], step.fees[name][2])],
                !.steps = Append(@, step),
                !.t = @ + 1,
                !.pc = IF sim.t + 1 < sim.config.n_steps THEN "price" ELSE "finish"])

\* lines 207-218
LightweightSimResult(sim, pnl, average_fees) ==
    [seed |-> sim.seed,
     strategies |-> Names,
     pnl |-> pnl,
     edges |-> sim.edges,
     initial_fair_price |-> sim.initial_fair_price,
     initial_reserves |-> sim.initial_reserves,
     steps |-> sim.steps,
     arb_volume_y |-> sim.arb_volume_y,
     retail_volume_y |-> sim.retail_volume_y,
     average_fees |-> average_fees]

\* lines 183-218: run returns Ok(result)
run_finish(sim) ==
    [pc |-> "done", config |-> sim.config, amms |-> sim.amms,
     result |-> LightweightSimResult(sim,
         [name \in {SubmissionName, BaselineName} |->
             pnl_of(amm_named(sim.amms, name), sim.initial_reserves[name],
                    sim.initial_fair_price, sim.price_process.current_price)],
         [name \in {SubmissionName, BaselineName} |->
             << FDiv(sim.cumulative_bid_fees[name], FromInt(sim.config.n_steps)),
                FDiv(sim.cumulative_ask_fees[name], FromInt(sim.config.n_steps)) >>])]

\* simulation/runner.rs, run_simulation and the closure of
\* run_simulations_parallel: the strategies are deployed, the submission's
\* first, and run is called with them; a failure returns
deployed(config, submission, baseline) ==
    IF ~submission.ok THEN RunFailed(config, << >>, submission.err)
    ELSE IF ~baseline.ok THEN RunFailed(config, << >>, baseline.err)
    ELSE SimulationEngine_run(config, submission.v, baseline.v)

run_deploy(sim) ==
    deployed(sim.config, EVMStrategy_new(sim.submission_bytecode, Name_Submission),
             EVMStrategy_new(sim.baseline_bytecode, Name_Baseline))

\* one statement group of a simulation, by the place it is at
run_step(sim) ==
    CASE sim.pc = "deploy"  -> run_deploy(sim)
      [] sim.pc = "begin"   -> run_begin(sim)
      [] sim.pc = "price"   -> run_price(sim)
      [] sim.pc = "arb"     -> run_arb(sim)
      [] sim.pc = "retail"  -> run_retail(sim)
      [] sim.pc = "capture" -> run_capture(sim)
      [] sim.pc = "finish"  -> run_finish(sim)

Returned(sim) == sim.pc \in {"done", "error"}

\* run from where it is to its return
RECURSIVE run_to_end(_)
run_to_end(sim) == IF Returned(sim) THEN sim ELSE run_to_end(run_step(sim))

\* what run returned: Ok(result) or Err(err)
RunOk(result) == [ok |-> TRUE, result |-> result, err |-> "none"]
RunErr(err) == [ok |-> FALSE, result |-> << >>, err |-> err]

run_result(sim) == IF sim.pc = "done" THEN RunOk(sim.result) ELSE RunErr(sim.err)

\* run_simulation has been called
Called(submission_bytecode, baseline_bytecode, config) ==
    [pc |-> "deploy", config |-> config,
     submission_bytecode |-> submission_bytecode,
     baseline_bytecode |-> baseline_bytecode]

\* simulation/runner.rs
run_simulation(submission_bytecode, baseline_bytecode, config) ==
    run_result(run_to_end(Called(submission_bytecode, baseline_bytecode, config)))

\* ------------------------------------------------------------- runner
\* simulation/runner.rs, run_simulations_parallel.
\* what the call returns: Ok(BatchSimulationResult) or Err(error)
BatchOk(results) ==
    [returned |-> TRUE, ok |-> TRUE, results |-> results,
     strategies |-> IF results = << >> THEN << >> ELSE results[1].strategies]

BatchErr(err) == [returned |-> TRUE, ok |-> FALSE, err |-> err]

NotReturned == [returned |-> FALSE]

Pending == [state |-> "pending"]
Taken == [state |-> "taken"]
Skipped == [state |-> "skipped"]
Done(res) == [state |-> "done", res |-> res]

Idle == [at |-> "idle", job |-> 0, sim |-> [pc |-> "idle"]]

\* variant: a thread keeps the strategies of the simulation it ran before
closure_deploy_reusing(worker, b, i) ==
    IF worker.sim.pc = "done"
    THEN SimulationEngine_run(b.configs[i], worker.sim.amms[1].strategy,
                              worker.sim.amms[2].strategy)
    ELSE run_deploy(Called(b.submission_bytecode, b.baseline_bytecode, b.configs[i]))

\* lines 55-67: the closure of the map deploys fresh strategies from the
\* batch's bytecodes for configs[i] and calls run with them
closure_deploy(worker, b, i) ==
    run_deploy(Called(b.submission_bytecode, b.baseline_bytecode, b.configs[i]))

\* variant: the results are gathered in the order the simulations ended
collect_as_finished(s, order, e) ==
    IF e # 0 THEN BatchErr(s[e].res.err)
    ELSE BatchOk([k \in 1 .. Len(order) |-> s[order[k]].res.result])

\* lines 52-73: `.collect()` into Result<Vec<_>, _> and `results?`; e is the
\* failed simulation whose error is kept, 0 if none failed
collect(s, order, e) ==
    IF e # 0 THEN BatchErr(s[e].res.err)
    ELSE BatchOk([i \in 1 .. Len(s) |-> s[i].res.result])

\* lines 55-69: the closure of the map for configs[i], to its return
closure(worker, b, i) == run_to_end(closure_deploy(worker, b, i))

\* the thread after the closure returned: sim is the simulation it ran
closure_done(sim) == [at |-> "idle", job |-> 0, sim |-> sim]

\* run_n_way_simulations_parallel, lines 102-165.  A call is
\* [op, pc, strategy_bytecodes, n_configs, job, deployments, ran, ret]:
\* deployments counts the strategies deployed and ran the simulations run.
InvalidConfig(msg) == [ok |-> FALSE, kind |-> "InvalidConfig", msg |-> msg]
EVMError(msg) == [ok |-> FALSE, kind |-> "EVMError", msg |-> msg]
NWayOk(n_results) == [ok |-> TRUE, kind |-> "none", n_results |-> n_results]

TooFew == "At least 2 strategies required for n-way match"
TooMany == "Maximum 10 strategies allowed for n-way match"
NoThreadPool == "Failed to create thread pool"

NWayReturned(call, ret) == [call EXCEPT !.pc = "returned", !.ret = ret]

\* variant: a match of one strategy is let through
n_way_validated_lenient(call) ==
    IF Len(call.strategy_bytecodes) < 1 THEN NWayReturned(call, InvalidConfig(TooFew))
    ELSE IF Len(call.strategy_bytecodes) > 10
    THEN NWayReturned(call, InvalidConfig(TooMany))
    ELSE [call EXCEPT !.pc = "pool"]

\* lines 105-117: the two validations of the number of strategies
n_way_validated(call) ==
    IF Len(call.strategy_bytecodes) < 2 THEN NWayReturned(call, InvalidConfig(TooFew))
    ELSE IF Len(call.strategy_bytecodes) > 10
    THEN NWayReturned(call, InvalidConfig(TooMany))
    ELSE [call EXCEPT !.pc = "pool"]

\* the function is entered
run_n_way_simulations_parallel(strategy_bytecodes, n_configs) ==
    n_way_validated([op |-> "run_n_way_simulations_parallel", pc |-> "called",
                     strategy_bytecodes |-> strategy_bytecodes,
                     n_configs |-> n_configs, job |-> 1, deployments |-> 0,
                     ran |-> 0, ret |-> NotReturned])

\* lines 124-127: the thread pool is built, or cannot be
n_way_pool(call, built) ==
    IF built THEN [call EXCEPT !.pc = "deploy"]
    ELSE NWayReturned(call, InvalidConfig(NoThreadPool))

\* lines 137-149: the strategies of a simulation are deployed in order, to
\* the first that cannot be; j is the strategy at hand
RECURSIVE n_way_deploy_from(_, _)
n_way_deploy_from(call, j) ==
    IF j > Len(call.strategy_bytecodes) THEN [call EXCEPT !.pc = "run"]
    ELSE IF ~EVMStrategy_new(call.strategy_bytecodes[j], Name_Strategy).ok
    THEN NWayReturned(call, EVMError(EVMStrategy_new(call.strategy_bytecodes[j],
                                                     Name_Strategy).err))
    ELSE n_way_deploy_from([call EXCEPT !.deployments = @ + 1], j + 1)

\* lines 150-151: engine.run_n_way is not among the sources; the simulation
\* is counted and its result left open
n_way_run(call) ==
    [call EXCEPT !.ran = @ + 1, !.job = @ + 1,
                 !.pc = IF call.job + 1 > call.n_configs THEN "collect" ELSE "deploy"]

\* lines 156-165
n_way_collect(call) == NWayReturned(call, NWayOk(call.ran))

\* ------------------------------------------------------------- results
\* types/result.rs
NoName == [some |-> FALSE, v |-> << >>]
SomeName(v) == [some |-> TRUE, v |-> v]

\* `map.get(name).copied().unwrap_or(default)`
get_or(map, name, default) == IF name \in DOMAIN map THEN map[name] ELSE default

\* the edge of a strategy in a result, its pnl when the result has no edge
edge_or_pnl(result, name) ==
    get_or(result.edges, name, get_or(result.pnl, name, F0))

\* lines 89-115: LightweightSimResult::winner
winner(result) ==
    IF Len(result.strategies) # 2 THEN NoName
    ELSE IF FGt(edge_or_pnl(result, result.strategies[1]),
                edge_or_pnl(result, result.strategies[2]))
    THEN SomeName(result.strategies[1])
    ELSE IF FGt(edge_or_pnl(result, result.strategies[2]),
                edge_or_pnl(result, result.strategies[1]))
    THEN SomeName(result.strategies[2])
    ELSE NoName

\* variant: a simulation with equal edges is counted for the second strategy
counted_ties_to_second(counts, result, name_a, name_b) ==
    IF FGt(edge_or_pnl(result, name_a), edge_or_pnl(result, name_b))
    THEN [counts EXCEPT ![1] = @ + 1]
    ELSE [counts EXCEPT ![2] = @ + 1]

\* lines 153-173: the body of `for result in &self.results`, on the counts
\* << wins_a, wins_b, draws >>
counted(counts, result, name_a, name_b) ==
    IF FGt(edge_or_pnl(result, name_a), edge_or_pnl(result, name_b))
    THEN [counts EXCEPT ![1] = @ + 1]
    ELSE IF FGt(edge_or_pnl(result, name_b), edge_or_pnl(result, name_a))
    THEN [counts EXCEPT ![2] = @ + 1]
    ELSE [counts EXCEPT ![3] = @ + 1]

RECURSIVE win_counts_from(_, _, _)
win_counts_from(b, counts, j) ==
    IF j > Len(b.results) THEN counts
    ELSE win_counts_from(b, counted(counts, b.results[j], b.strategies[1],
                                    b.strategies[2]), j + 1)

\* lines 141-177: BatchSimulationResult::win_counts
win_counts(b) ==
    IF Len(b.strategies) # 2 THEN << 0, 0, 0 >>
    ELSE win_counts_from(b, << 0, 0, 0 >>, 1)

\* lines 200-209: BatchSimulationResult::overall_winner
overall_winner(b) ==
    IF win_counts(b)[1] > win_counts(b)[2] THEN SomeName(b.strategies[1])
    ELSE IF win_counts(b)[2] > win_counts(b)[1] THEN SomeName(b.strategies[2])
    ELSE NoName

\* ------------------------------------------------------------- inputs
Bytecode(deploys, getname, init, swap) ==
    [deploys |-> deploys, getname |-> getname, init |-> init, swap |-> swap]

GoodModes == {"fixed", "zero", "max", "ramp"}
FailModes == EvmFailModes \cup DataFailModes

\* the strategies the pool is exercised with
PoolBytecodes ==
    {Bytecode(TRUE, "ok", m, m) : m \in GoodModes}
    \cup {Bytecode(TRUE, "ok", "fixed", m) : m \in FailModes}
    \cup {Bytecode(TRUE, "ok", m, "fixed") : m \in {"revert", "overmax"}}

Huge == [s |-> 1, m |-> MantLo, e |-> 40]

\* trade sizes: small, medium, above the reserves, and far above them
Amounts == {FromInt(10), FromInt(300), FromInt(2000), Huge}

InitialReserves == {<< FromInt(1000), FromInt(1000) >>}

\* the seeds of the configs are None and Some(0) .. Some(MaxSeed), their
\* n_steps 1 .. MaxSteps
MaxSeed == 2
MaxSteps == 2

SimulationConfig(n_steps, seed) ==
    [n_steps |-> n_steps,
     initial_price |-> F1,
     initial_x |-> FromInt(1000),
     initial_y |-> FromInt(1000),
     gbm_mu |-> F0,
     gbm_sigma |-> FRatio(2, 100),
     gbm_dt |-> F1,
     retail_arrival_rate |-> F1,
     retail_mean_size |-> FromInt(20),
     retail_size_sigma |-> FRatio(1, 2),
     retail_buy_prob |-> FRatio(1, 2),
     seed |-> seed]

Seeds == {NoSeed} \cup {SomeSeed(v) : v \in 0 .. MaxSeed}

\* a small pool, on which the retail orders are large and the fees show
SmallPool(config) ==
    [config EXCEPT !.initial_x = FromInt(16), !.initial_y = FromInt(16)]

Configs ==
    {SimulationConfig(n, sd) : n \in 1 .. MaxSteps, sd \in Seeds}
    \cup {SmallPool(SimulationConfig(n, NoSeed)) : n \in 1 .. MaxSteps}

\* the strategies of a match: well-behaved ones, ones that fail in
\* after_swap, in after_initialize, in getName and at deployment
SubmissionBytecodes ==
    {Bytecode(TRUE, "ok", m, m) : m \in GoodModes}
    \cup {Bytecode(TRUE, "ok", "fixed", m) : m \in FailModes}
    \cup {Bytecode(TRUE, "ok", m, "fixed") : m \in FailModes}
    \cup {Bytecode(TRUE, "revert", "fixed", "fixed"),
          Bytecode(FALSE, "ok", "fixed", "fixed"),
          Bytecode(TRUE, "named", "ramp", "ramp")}

\* the inputs of a batch: at most BatchSize configs on at most MaxWorkers
\* threads
BatchSize == 2
MaxWorkers == 2
\* the simulations of a batch whose wins are counted
MaxResults == 3
\* the 32-byte words of the data a call returns
MaxWords == 3
\* the strategy bytecodes of an n-way match
MaxBytecodes == 11

BatchConfigs ==
    {[SimulationConfig(1, NoSeed) EXCEPT !.initial_x = FromInt(2000)],
     SimulationConfig(1, SomeSeed(1))}

BatchSubmissions ==
    {Bytecode(TRUE, "ok", "ramp", "ramp"),
     Bytecode(TRUE, "ok", "picky", "revert"),
     Bytecode(TRUE, "revert", "fixed", "fixed")}

BatchBaseline == Bytecode(TRUE, "ok", "fixed", "fixed")

ConfigLists == UNION {[1 .. n -> BatchConfigs] : n \in 0 .. BatchSize}

BaselineBytecodes ==
    {Bytecode(TRUE, "ok", "fixed", "fixed"),
     Bytecode(TRUE, "named", "fixed", "fixed"),
     Bytecode(TRUE, "ok", "halt", "fixed"),
     Bytecode(TRUE, "ok", "overmax", "fixed")}

\* ------------------------------------------------------------- SpecPool
\* One pool driven through its public operations (CFMM::initialize and the
\* three execute functions) with any amounts, as a caller of the type may.
\* last records the latest call: its operation and amount, the pool before
\* it, what it returned and what the strategy host answered; failed counts
\* the after_swap calls that failed so far.
VARIABLES pool, calls, last, failed

\* A simulation: run is the state of one call of run_simulation.
VARIABLES run

\* A batch: batch is the SimulationBatchConfig of one call of
\* run_simulations_parallel; slots[i] is where the simulation of configs[i]
\* is (pending, taken by a worker, done with what it returned, or skipped);
\* workers[w] is what thread w of the pool is at; finished lists the
\* simulations in the order they ended; ret is what the call returned.
VARIABLES batch, slots, workers, finished, ret

\* A call of one of the program's pure functions: eval is the function, its
\* arguments and what it returned.
VARIABLES eval

poolVars == << pool, calls, last, failed >>
engineVars == << run >>
batchVars == << batch, slots, workers, finished, ret >>
evalVars == << eval >>
vars ==
    << pool, calls, last, failed, run, batch, slots, workers, finished, ret, eval >>

\* the parts a specification does not use stay as they are
PoolUnused == pool = "unused" /\ calls = 0 /\ last = "unused" /\ failed = 0
EngineUnused == run = "unused"
EvalUnused == eval = "unused"
BatchUnused ==
    /\ batch = "unused" /\ slots = << >> /\ workers = << >>
    /\ finished = << >> /\ ret = "unused"

ExecuteOps == {"execute_buy_x", "execute_sell_x", "execute_buy_x_with_y"}

PoolInit ==
    /\ \E b \in PoolBytecodes, r \in InitialReserves :
          pool = CFMM_new(EVMStrategy_new(b, Name_Submission).v, r[1], r[2])
    /\ calls = 0
    /\ last = [op |-> "new", amount |-> F0, before |-> pool, ret |-> NoTrade,
               host_ok |-> TRUE, host_err |-> "not called"]
    /\ failed = 0
    /\ EngineUnused /\ BatchUnused /\ EvalUnused

\* the call op(amount) gave r
PoolCalled(op, amount, r) ==
    /\ pool' = r.amm
    /\ last' = [op |-> op, amount |-> amount, before |-> pool, ret |-> r.ret,
                host_ok |-> r.host_ok, host_err |-> r.host_err]
    /\ failed' = IF r.host_ok THEN failed ELSE failed + 1
    /\ calls' = calls + 1
    /\ UNCHANGED << engineVars, batchVars, evalVars >>

PoolInitializeDone(r) ==
    /\ pool' = r.amm
    /\ last' = [op |-> "initialize", amount |-> F0, before |-> pool, ret |-> NoTrade,
                host_ok |-> r.ok, host_err |-> r.err]
    /\ calls' = calls + 1
    /\ UNCHANGED << failed, engineVars, batchVars, evalVars >>

PoolInitialize ==
    /\ calls < MaxCalls
    /\ ~pool.initialized
    /\ PoolInitializeDone(initialize(pool))

PoolExecuteBuyX ==
    /\ calls < MaxCalls
    /\ \E a \in Amounts : PoolCalled("execute_buy_x", a, execute_buy_x(pool, a, calls))

PoolExecuteSellX ==
    /\ calls < MaxCalls
    /\ \E a \in Amounts : PoolCalled("execute_sell_x", a, execute_sell_x(pool, a, calls))

PoolExecuteBuyXWithY ==
    /\ calls < MaxCalls
    /\ \E a \in Amounts :
          PoolCalled("execute_buy_x_with_y", a, execute_buy_x_with_y(pool, a, calls))

PoolNext ==
    \/ PoolInitialize
    \/ PoolExecuteBuyX
    \/ PoolExecuteSellX
    \/ PoolExecuteBuyXWithY

SpecPool == PoolInit /\ [][PoolNext]_vars

\* the pool over its first calls: every execute on a pool that is new or
\* has been called before
TradeCalls == 2

PoolNextEarly == calls < TradeCalls /\ PoolNext

SpecTrade == PoolInit /\ [][PoolNextEarly]_vars

\* the latest call was an execute that traded
Traded_last == last.op \in ExecuteOps /\ last.ret.some

\* what a trade may change of a pool
PoolState(amm) ==
    << amm.reserve_x, amm.reserve_y, amm.current_fees,
       amm.accumulated_fees_x, amm.accumulated_fees_y >>

\* the latest call the strategy of a pool has received
LastSeen(amm) == amm.strategy.seen[Len(amm.strategy.seen)]

\* the strategy of the pool after was called once more than that of before,
\* with after_swap
CalledOnce(before, after) ==
    /\ Len(after.strategy.seen) = Len(before.strategy.seen) + 1
    /\ SubSeq(after.strategy.seen, 1, Len(before.strategy.seen)) = before.strategy.seen
    /\ LastSeen(after).selector = SELECTOR_AFTER_SWAP

\* C1: in every reachable pool state (new, initialized, after any executes,
\* whatever the strategy answered) bid_fee and ask_fee are in [0, MAX_FEE].
C1_FeesWithinMaxFee ==
    /\ pool.current_fees.bid_fee \in 0 .. MAX_FEE
    /\ pool.current_fees.ask_fee \in 0 .. MAX_FEE

\* a trade after which the strategy set both fees to MAX_FEE
C1_Witness ==
    /\ Traded_last /\ last.host_ok
    /\ pool.current_fees = FeeQuote_new(MAX_FEE, MAX_FEE)
    /\ last.before.current_fees # pool.current_fees


\* 16 units of rounding: 16 * 2^-Precision
RoundingSlack == [s |-> 1, m |-> MantLo, e |-> 5 - 2 * Precision]

\* C2 as stated: after every successful execute the product of the reserves
\* equals the product before it.
C2_KUnchanged == Traded_last => k_of(pool) = k_of(last.before)

\* C2 amended: after every successful execute the product of the reserves is
\* the product before it up to rounding: with x, y the reserves before and
\* x', y' after, |x'y' - xy| <= 16 * 2^-Precision * (xy + x'y + xy').
C2_KUnchangedUpToRounding ==
    Traded_last =>
        FLe(FAbs(FSub(k_of(pool), k_of(last.before))),
            FMul(RoundingSlack,
                 FAdd(k_of(last.before),
                      FAdd(FMul(pool.reserve_x, last.before.reserve_y),
                           FMul(last.before.reserve_x, pool.reserve_y)))))

\* a successful trade with a positive fee rate that moved the product
C2_Witness ==
    /\ Traded_last
    /\ FGt(last.ret.fee_amount, F0)
    /\ k_of(pool) # k_of(last.before)
    /\ FGt(pool.reserve_x, F0) /\ FGt(pool.reserve_y, F0)

\* C3 as stated: from positive reserves, after any successful trades of any
\* accepted size both reserves are strictly positive.
C3_ReservesPositive == FGt(pool.reserve_x, F0) /\ FGt(pool.reserve_y, F0)

\* C4 as stated: a successful trade strictly increases the bucket of its
\* input asset and leaves the other unchanged.
C4_InputBucketStrictlyIncreases ==
    Traded_last =>
        IF last.op = "execute_buy_x"
        THEN /\ FGt(pool.accumulated_fees_x, last.before.accumulated_fees_x)
             /\ pool.accumulated_fees_y = last.before.accumulated_fees_y
        ELSE /\ FGt(pool.accumulated_fees_y, last.before.accumulated_fees_y)
             /\ pool.accumulated_fees_x = last.before.accumulated_fees_x

\* C4 amended: a successful trade adds its fee_amount >= 0 to the bucket of
\* its input asset (X for execute_buy_x, Y for the other two) and leaves the
\* other bucket unchanged; no call decreases a bucket.
C4_InputBucketGrowsByFee ==
    /\ FGe(pool.accumulated_fees_x, last.before.accumulated_fees_x)
    /\ FGe(pool.accumulated_fees_y, last.before.accumulated_fees_y)
    /\ ~Traded_last => /\ pool.accumulated_fees_x = last.before.accumulated_fees_x
                       /\ pool.accumulated_fees_y = last.before.accumulated_fees_y
    /\ Traded_last =>
          /\ FGe(last.ret.fee_amount, F0)
          /\ IF last.op = "execute_buy_x"
             THEN /\ pool.accumulated_fees_x =
                        FAdd(last.before.accumulated_fees_x, last.ret.fee_amount)
                  /\ pool.accumulated_fees_y = last.before.accumulated_fees_y
             ELSE /\ pool.accumulated_fees_y =
                        FAdd(last.before.accumulated_fees_y, last.ret.fee_amount)
                  /\ pool.accumulated_fees_x = last.before.accumulated_fees_x

\* a successful sale of X with a positive fee, after fees gathered in X
C4_Witness ==
    /\ Traded_last /\ last.op = "execute_sell_x"
    /\ FGt(last.ret.fee_amount, F0)
    /\ FGt(pool.accumulated_fees_x, F0)
    /\ FGt(pool.accumulated_fees_y, last.before.accumulated_fees_y)

\* the latest call made on pool a instead
Replayed(a) ==
    CASE last.op = "execute_buy_x" -> execute_buy_x(a, last.amount, calls - 1)
      [] last.op = "execute_sell_x" -> execute_sell_x(a, last.amount, calls - 1)
      [] OTHER -> execute_buy_x_with_y(a, last.amount, calls - 1)

\* the pool has the reserves and buckets of r, and the latest call returned
\* what r returned
SameTradeAs(r) ==
    /\ r.host_ok
    /\ last.ret = r.ret
    /\ pool.reserve_x = r.amm.reserve_x
    /\ pool.reserve_y = r.amm.reserve_y
    /\ pool.accumulated_fees_x = r.amm.accumulated_fees_x
    /\ pool.accumulated_fees_y = r.amm.accumulated_fees_y

\* C5: when after_swap fails (revert, halt, out of gas, short return data, a
\* word above 128 bits, a fee above MAX_FEE) the execute still returns its
\* TradeResult, the reserves and buckets are those the same trade leaves
\* when the strategy answers well, and both fees are those of the quote
\* before the call.
C5_AfterSwapFailureKeepsFees ==
    (last.op \in ExecuteOps /\ ~last.host_ok) =>
        /\ last.ret.some
        /\ pool.current_fees = last.before.current_fees
        /\ pool.initialized = last.before.initialized
        /\ SameTradeAs(Replayed([last.before EXCEPT !.strategy.bytecode.swap = "max"]))

\* a trade whose after_swap failed, made after an earlier failure, on a pool
\* whose fees the strategy had set
C5_Witness ==
    /\ last.op \in ExecuteOps /\ ~last.host_ok
    /\ last.host_err = "InvalidReturnData"
    /\ failed >= 2
    /\ pool.current_fees # DefaultFees
\* the gross amounts of the latest trade: what the caller gave and what the
\* quote on the pool before the trade answered
GrossX ==
    IF last.op = "execute_buy_x_with_y" THEN quote_x_for_y(last.before, last.amount)[1]
    ELSE last.amount

GrossY ==
    CASE last.op = "execute_buy_x"        -> quote_buy_x(last.before, last.amount)[1]
      [] last.op = "execute_sell_x"       -> quote_sell_x(last.before, last.amount)[1]
      [] last.op = "execute_buy_x_with_y" -> last.amount

\* the six words of the calldata are the fields of the trade
CalldataOf(calldata, trade) ==
    /\ calldata.selector = SELECTOR_AFTER_SWAP
    /\ Len(calldata.words) = 6
    /\ \A k \in 1 .. 6 : calldata.words[k].hi = 0
    /\ calldata.words[1].lo = (IF trade.is_buy THEN 1 ELSE 0)
    /\ calldata.words[2].lo = trade.amount_x
    /\ calldata.words[3].lo = trade.amount_y
    /\ calldata.words[4].lo = trade.timestamp
    /\ calldata.words[5].lo = trade.reserve_x
    /\ calldata.words[6].lo = trade.reserve_y

TradeReported ==
    Traded_last =>
        /\ CalledOnce(last.before, pool)
        /\ CalldataOf(LastSeen(pool), last.ret.trade_info)
        /\ last.ret.trade_info.is_buy <=> last.op = "execute_buy_x"
        /\ last.ret.trade_info.amount_x = Wad_from_f64(GrossX)
        /\ last.ret.trade_info.amount_y = Wad_from_f64(GrossY)
        /\ last.ret.trade_info.timestamp = calls - 1
        /\ last.ret.trade_info.reserve_x = Wad_from_f64(pool.reserve_x)
        /\ last.ret.trade_info.reserve_y = Wad_from_f64(pool.reserve_y)
        /\ pool.reserve_x # last.before.reserve_x
        /\ pool.reserve_y # last.before.reserve_y

\* C24: every successful execute builds one TradeInfo, passes it to the
\* strategy's after_swap exactly once and returns the same TradeInfo: is_buy
\* is true exactly for execute_buy_x, amount_x and amount_y are the gross
\* amounts of the trade, timestamp is the caller's timestamp, and reserve_x,
\* reserve_y are the pool's reserves after the trade was applied.
C24_TradeInfoReported == TradeReported

\* a purchase of X paid in Y, after an earlier call: the strategy was told of
\* a sale by the pool, with reserves that are not those before the trade and
\* a Y amount above what entered the reserve
C24_Witness ==
    /\ Traded_last
    /\ last.op = "execute_buy_x_with_y"
    /\ calls > 1
    /\ LastSeen(pool).words[1].lo = 0
    /\ LastSeen(pool).words[4].lo = calls - 1
    /\ LastSeen(pool).words[5].lo # Wad_from_f64(last.before.reserve_x)
    /\ LastSeen(pool).words[6].lo # Wad_from_f64(last.before.reserve_y)
    /\ FGt(GrossY, FSub(pool.reserve_y, last.before.reserve_y))

\* ------------------------------------------------------------- Spec
\* One call of run_simulation, statement group by statement group.
Init ==
    /\ \E sb \in SubmissionBytecodes, bb \in BaselineBytecodes, c \in Configs :
          run = Called(sb, bb, c)
    /\ PoolUnused /\ BatchUnused /\ EvalUnused

\* run_simulation is at the deployment of the two strategies
Deploy ==
    /\ run.pc = "deploy"
    /\ run' = run_deploy(run)
    /\ UNCHANGED << poolVars, batchVars, evalVars >>

\* run makes and initializes the pools
Begin ==
    /\ run.pc = "begin"
    /\ run' = run_begin(run)
    /\ UNCHANGED << poolVars, batchVars, evalVars >>

\* step t: the fair price
StepPrice ==
    /\ run.pc = "price"
    /\ run' = run_price(run)
    /\ UNCHANGED << poolVars, batchVars, evalVars >>

\* step t: the arbitrageur at pool i
StepArb ==
    /\ run.pc = "arb"
    /\ run' = run_arb(run)
    /\ UNCHANGED << poolVars, batchVars, evalVars >>

\* step t: the retail orders
StepRetail ==
    /\ run.pc = "retail"
    /\ run' = run_retail(run)
    /\ UNCHANGED << poolVars, batchVars, evalVars >>

\* step t: the snapshot
StepCapture ==
    /\ run.pc = "capture"
    /\ run' = run_capture(run)
    /\ UNCHANGED << poolVars, batchVars, evalVars >>

\* run returns its result
Finish ==
    /\ run.pc = "finish"
    /\ run' = run_finish(run)
    /\ UNCHANGED << poolVars, batchVars, evalVars >>

Next ==
    \/ Deploy
    \/ Begin
    \/ StepPrice
    \/ StepArb
    \/ StepRetail
    \/ StepCapture
    \/ Finish

Spec == Init /\ [][Next]_vars
\* after_initialize fails for the strategy of this bytecode, freshly deployed
InitializeFails(bytecode, config) ==
    ~after_initialize(EVMStrategy_new(bytecode, Name_Submission).v,
                      Wad_from_f64(config.initial_x),
                      Wad_from_f64(config.initial_y)).ok

\* the pool is as CFMM::new made it: default fees, not initialized
Uninitialized(a) == a.current_fees = DefaultFees /\ ~a.initialized

\* the first of the two pools whose after_initialize fails
FirstFailing(amms, config) ==
    IF InitializeFails(amms[1].strategy.bytecode, config) THEN 1 ELSE 2

\* C6: if after_initialize fails for either pool (revert, halt, out of gas,
\* invalid return data, a fee above MAX_FEE), run has returned the error of
\* the first failing pool and no result, from its initialization and so
\* before any step, and that pool has the fees it was made with and is not
\* initialized; otherwise run goes on with both pools initialized.
C6_InitializeFailureAbortsRun ==
    (run.pc \notin {"deploy", "begin"} /\ run.amms # << >>) =>
        IF \E j \in 1 .. 2 : InitializeFails(run.amms[j].strategy.bytecode, run.config)
        THEN /\ run.pc = "error"
             /\ ~run_result(run).ok
             /\ run_result(run).err \in {"ExecutionFailed", "OutOfGas",
                                         "InvalidReturnData"}
             /\ Uninitialized(run.amms[FirstFailing(run.amms, run.config)])
        ELSE /\ run.pc # "error"
             /\ \A j \in 1 .. 2 : run.amms[j].initialized

\* the baseline's after_initialize failed after the submission's succeeded
C6_Witness ==
    /\ run.pc = "error" /\ run.amms # << >>
    /\ run.amms[1].initialized
    /\ Uninitialized(run.amms[2])
    /\ run.err = "InvalidReturnData"

\* the process of a config after n steps, nothing else using it
RECURSIVE price_stepped(_, _)
price_stepped(pp, n) == IF n = 0 THEN pp ELSE price_stepped(price_step(pp), n - 1)

FairPriceAt(config, n) ==
    price_stepped(GBMPriceProcess_new(config.initial_price, config.gbm_mu,
                                      config.gbm_sigma, config.gbm_dt,
                                      seed_of(config)), n).current_price

\* the n-th orders of the retail trader of a config, nothing else using it
RECURSIVE orders_generated(_, _)
orders_generated(rt, n) ==
    IF n = 1 THEN generate_orders(rt).orders
    ELSE orders_generated([rt EXCEPT !.rng = generate_orders(rt).rng], n - 1)

OrdersAt(config, n) ==
    orders_generated(RetailTrader_new(config.retail_arrival_rate,
                                      config.retail_mean_size,
                                      config.retail_size_sigma,
                                      config.retail_buy_prob, seed_of(config) + 1), n)

\* C10: the fair price of every step and the orders of every step are those
\* the generators of the config alone give (the price process of the seed
\* stepped once per step, the retail trader of seed + 1 sampled once per
\* step), whatever the strategies answer and whatever trades happen.
C10_MarketFixedByConfig ==
    /\ run.pc \in {"price", "arb", "retail", "capture", "finish"} =>
          /\ \A j \in 1 .. Len(run.steps) :
                run.steps[j].fair_price = FairPriceAt(run.config, j)
          /\ Len(run.steps) = run.t
          /\ run.pc \in {"arb", "retail", "capture"} =>
                run.fair_price = FairPriceAt(run.config, run.t + 1)
          /\ run.pc = "capture" => run.orders = OrdersAt(run.config, run.t + 1)
    /\ run.pc = "done" =>
          /\ Len(run.result.steps) = run.config.n_steps
          /\ \A j \in 1 .. Len(run.result.steps) :
                run.result.steps[j].fair_price = FairPriceAt(run.config, j)

\* the second step of a run whose submission fails in after_swap, after
\* orders were routed and the pools have gone apart
C10_Witness ==
    /\ run.pc = "capture" /\ run.t >= 1
    /\ run.orders # << >>
    /\ run.amms[1].strategy.bytecode.swap \in FailModes
    /\ run.amms[1].reserve_x # run.amms[2].reserve_x
    /\ run.arb_volume_y[SubmissionName] # F0

\* the keys of the per-pool maps
PoolKeys == {SubmissionName, BaselineName}

\* every per-pool map of a sequence of maps has exactly the two keys
KeyedByPosition(maps) == \A k \in 1 .. Len(maps) : DOMAIN maps[k] = PoolKeys

\* the per-pool maps of a run in its loop, of its steps, and of a result
LoopMaps(sim) ==
    << sim.edges, sim.arb_volume_y, sim.retail_volume_y, sim.initial_reserves,
       sim.cumulative_bid_fees, sim.cumulative_ask_fees >>

StepsKeyedByPosition(steps) ==
    \A j \in 1 .. Len(steps) :
        KeyedByPosition(<< steps[j].spot_prices, steps[j].pnls, steps[j].fees >>)

ResultMaps(result) ==
    << result.pnl, result.edges, result.initial_reserves, result.arb_volume_y,
       result.retail_volume_y, result.average_fees >>

\* what the arbitrageur does on the pool the loop is at, and what the router
\* does with the orders of the step
ArbAttempt == execute_arb(run.amms[run.i], run.fair_price, run.t)
Routed ==
    route_orders(generate_orders(run.retail_trader).orders, run.amms,
                 run.fair_price, run.t)

\* the trades of a sequence that carry the name of a key
TradesOf(trades, key) == SelectSeq(trades, LAMBDA trade : trade.amm_name = key)

\* nothing is accumulated under the key in the step from sim to next
NothingBooked(sim, next, key) ==
    /\ next.edges[key] = sim.edges[key]
    /\ next.arb_volume_y[key] = sim.arb_volume_y[key]
    /\ next.retail_volume_y[key] = sim.retail_volume_y[key]

\* each pool carries its positional name and every per-pool map has the two
\* positional keys
PositionalKeys ==
    /\ run.pc \in {"price", "arb", "retail", "capture", "finish"} =>
          /\ \A j \in 1 .. 2 : run.amms[j].name = Names[j]
          /\ KeyedByPosition(LoopMaps(run))
          /\ StepsKeyedByPosition(run.steps)
    /\ run.pc = "done" =>
          /\ run.result.strategies = Names
          /\ KeyedByPosition(ResultMaps(run.result))
          /\ StepsKeyedByPosition(run.result.steps)

\* an arbitrage trade carries the key of the pool it was executed on, and a
\* pool the arbitrage turn or the routing left as it was has nothing
\* accumulated under its key and no trade carrying its key
BookedWhereExecuted ==
    /\ run.pc = "arb" =>
          /\ ArbAttempt.arb.some => ArbAttempt.arb.amm_name = Names[run.i]
          /\ \A j \in 1 .. 2 :
                (j # run.i \/ ~ArbAttempt.arb.some) =>
                    /\ run'.amms[j] = run.amms[j]
                    /\ NothingBooked(run, run', Names[j])
    /\ run.pc = "retail" =>
          /\ \A k \in 1 .. Len(Routed.trades) : Routed.trades[k].amm_name \in PoolKeys
          /\ \A j \in 1 .. 2 :
                (run'.amms[j] = run.amms[j]) =>
                    TradesOf(Routed.trades, Names[j]) = << >>
          /\ \A j \in 1 .. 2 :
                (TradesOf(Routed.trades, Names[j]) = << >>) =>
                    NothingBooked(run, run', Names[j])

\* C11: the two pools are keyed by the positional names "submission" and
\* "normalizer" whatever names the strategies report: each pool carries its
\* positional name, every per-pool map of the run, of its steps and of its
\* result has exactly these two keys, and each trade is accumulated under
\* the key of the pool it was executed on, the other pool's entries staying
\* as they are.
C11_PoolsKeyedByPosition == []PositionalKeys /\ [][BookedWhereExecuted]_vars

\* something was accumulated under the key in a result
Accumulated(result, key) ==
    result.arb_volume_y[key] # F0 \/ result.retail_volume_y[key] # F0

\* a run has returned its result for two strategies that report the same
\* name, with trades on both pools and different edges
C11_Witness ==
    /\ run.pc = "done"
    /\ run.amms[1].strategy.name = ReportedName
    /\ run.amms[2].strategy.name = ReportedName
    /\ Accumulated(run.result, SubmissionName)
    /\ Accumulated(run.result, BaselineName)
    /\ run.result.edges[SubmissionName] # run.result.edges[BaselineName]

\* the arbitrage turn from sim to next booked the trade arb under the key
ArbBooked(sim, next, key, arb) ==
    /\ FGt(arb.profit, F0)
    /\ FGt(arb.amount_y, F0)
    /\ next.arb_volume_y[key] = FAdd(sim.arb_volume_y[key], arb.amount_y)
    /\ next.edges[key] = FSub(sim.edges[key], arb.profit)
    /\ FLe(next.edges[key], sim.edges[key])
    /\ FGe(next.arb_volume_y[key], sim.arb_volume_y[key])

\* an arbitrage turn: the trade of the attempt is booked under the key of the
\* pool it was executed on; without a trade the turn books nothing
ArbTurnBooks ==
    run.pc = "arb" =>
        /\ run'.amms[run.i] = ArbAttempt.amm
        /\ IF ArbAttempt.arb.some
           THEN /\ ArbBooked(run, run', Names[run.i], ArbAttempt.arb)
                /\ ArbAttempt.amm # run.amms[run.i]
           ELSE /\ run'.arb_volume_y = run.arb_volume_y
                /\ run'.edges = run.edges
                /\ ArbAttempt.amm = run.amms[run.i]
        /\ run'.retail_volume_y = run.retail_volume_y

\* C12: for every arbitrage trade executed on a pool, arb_volume_y of that
\* pool becomes its value plus the trade's Y amount and edges of that pool
\* its value minus the arbitrageur's profit (in f64), the profit being
\* strictly positive; when the arbitrageur makes no trade on a pool, the
\* arbitrage turn leaves the pool, the volumes and the edges as they are.
C12_ArbitrageBooked == [][ArbTurnBooks]_vars

\* after the arbitrage of a step: a trade was executed on the baseline's pool
\* and its edge went below zero, and none on the submission's pool
C12_Witness ==
    /\ run.pc = "retail"
    /\ run.t = 0
    /\ run.arb_volume_y[BaselineName] # F0
    /\ FLt(run.edges[BaselineName], F0)
    /\ run.arb_volume_y[SubmissionName] = F0
    /\ run.edges[SubmissionName] = F0
    /\ run.amms[2].reserve_x # run.config.initial_x
    /\ run.amms[1].reserve_x = run.config.initial_x

\* what the pool earned on a retail trade against the fair price f
EdgeOfTrade(trade, f) ==
    IF trade.amm_buys_x
    THEN FSub(FMul(trade.amount_x, f), trade.amount_y)
    ELSE FSub(trade.amount_y, FMul(trade.amount_x, f))

\* volume with the trades j.. of the key added one after the other
RECURSIVE VolumeAfter(_, _, _, _)
VolumeAfter(volume, trades, key, j) ==
    IF j > Len(trades) THEN volume
    ELSE VolumeAfter(IF trades[j].amm_name = key
                     THEN FAdd(volume, trades[j].amount_y) ELSE volume,
                     trades, key, j + 1)

\* edge with the edges of the trades j.. of the key added one after the other
RECURSIVE EdgeAfter(_, _, _, _, _)
EdgeAfter(edge, trades, key, f, j) ==
    IF j > Len(trades) THEN edge
    ELSE EdgeAfter(IF trades[j].amm_name = key
                   THEN FAdd(edge, EdgeOfTrade(trades[j], f)) ELSE edge,
                   trades, key, f, j + 1)

\* the only trade of a pool in a step moved the pool's X reserve to the side
\* the trade names
SideOfTrade(before, after, trade) ==
    IF trade.amm_buys_x THEN FGt(after.reserve_x, before.reserve_x)
                        ELSE FLt(after.reserve_x, before.reserve_x)

\* the retail phase of a step books each routed trade under its pool
RetailPhaseBooks ==
    run.pc = "retail" =>
        /\ run'.amms = Routed.amms
        /\ run'.arb_volume_y = run.arb_volume_y
        /\ \A j \in 1..Len(Names) :
              /\ run'.retail_volume_y[Names[j]] =
                     VolumeAfter(run.retail_volume_y[Names[j]], Routed.trades,
                                 Names[j], 1)
              /\ run'.edges[Names[j]] =
                     EdgeAfter(run.edges[Names[j]], Routed.trades, Names[j],
                               run.fair_price, 1)
              /\ Len(TradesOf(Routed.trades, Names[j])) = 0 =>
                     /\ run'.amms[j] = run.amms[j]
                     /\ NothingBooked(run, run', Names[j])
              /\ Len(TradesOf(Routed.trades, Names[j])) = 1 =>
                     SideOfTrade(run.amms[j], run'.amms[j],
                                 TradesOf(Routed.trades, Names[j])[1])
        /\ \A k \in 1..Len(Routed.trades) :
              /\ FGt(Routed.trades[k].amount_y, F0)
              /\ FGt(Routed.trades[k].amount_x, F0)

\* C13: for every routed retail trade of a step with fair price f,
\* retail_volume_y of the trade's pool grows by the trade's amount_y and edges
\* of the pool by amount_y - amount_x*f when the pool sold X and by
\* amount_x*f - amount_y when the pool bought X (f64 sums, in the order of the
\* trades); a pool with no retail leg keeps its retail volume and its edge.
C13_RetailBooked == [][RetailPhaseBooks]_vars

\* after the retail phase of the first step: both pools took a retail leg
\* and were credited for it, and the submission's pool holds more X than at
\* the start
C13_Witness ==
    /\ run.pc = "capture"
    /\ run.t = 0
    /\ run.retail_volume_y[SubmissionName] # F0
    /\ run.retail_volume_y[BaselineName] # F0
    /\ run.edges[SubmissionName] # F0
    /\ FGt(run.amms[1].reserve_x, run.config.initial_x)

\* (x*f + y + acc_x*f + acc_y) - (x0*f0 + y0) in f64, in the order of the
\* code: the reserves' value, the fees' value, their sum, less the initial value
PnlAt(amm, f, config) ==
    FSub(FAdd(FAdd(FMul(amm.reserve_x, f), amm.reserve_y),
              FAdd(FMul(amm.accumulated_fees_x, f), amm.accumulated_fees_y)),
         FAdd(FMul(config.initial_x, config.initial_price), config.initial_y))

Last(steps) == steps[Len(steps)]

\* the capture of a step records, for each pool, the PnL of the pool as the
\* trades of the step left it, at the fair price of the step; the pools are
\* not changed by it
SnapshotTaken ==
    run.pc = "capture" =>
        /\ run'.steps = Append(run.steps, Last(run'.steps))
        /\ run'.amms = run.amms
        /\ Last(run'.steps).timestamp = run.t
        /\ Last(run'.steps).fair_price = run.fair_price
        /\ run.fair_price = run.price_process.current_price
        /\ \A j \in 1..Len(Names) :
              Last(run'.steps).pnls[Names[j]] =
                  PnlAt(run.amms[j], run.fair_price, run.config)

\* the result's pnl is taken at the fair price of the last step, from the
\* pools as the last step left them, and is the pnl of the last snapshot
FinalPnl ==
    (run.pc = "done" /\ run.config.n_steps > 0) =>
        /\ Len(run.result.steps) = run.config.n_steps
        /\ \A j \in 1..Len(Names) :
              /\ run.result.pnl[Names[j]] =
                     PnlAt(run.amms[j], Last(run.result.steps).fair_price,
                           run.config)
              /\ run.result.pnl[Names[j]] = Last(run.result.steps).pnls[Names[j]]

\* C14: the PnL recorded for a pool in the snapshot of step t is
\* (x*f + y + acc_x*f + acc_y) - (x0*f0 + y0) with the pool's reserves and
\* accumulated fees after all trades of step t, the fair price f of step t
\* and the initial fair price f0; the result's pnl is taken at the final fair
\* price and, when n_steps > 0, equals the PnL of the last snapshot.
C14_SnapshotPnl == []FinalPnl /\ [][SnapshotTaken]_vars

\* a finished run of more than one step whose pools earned fees in both
\* tokens and whose final pnl differs between the pools and from the first
\* snapshot's
C14_Witness ==
    /\ run.pc = "done"
    /\ Len(run.result.steps) > 1
    /\ run.amms[1].accumulated_fees_x # F0
    /\ run.amms[1].accumulated_fees_y # F0
    /\ run.result.pnl[SubmissionName] # run.result.pnl[BaselineName]
    /\ run.result.pnl[SubmissionName] # run.result.steps[1].pnls[SubmissionName]
    /\ Last(run.result.steps).fair_price # run.config.initial_price
    /\ run.result.pnl[SubmissionName] #
           FSub(FAdd(FMul(run.amms[1].reserve_x, Last(run.result.steps).fair_price),
                     run.amms[1].reserve_y),
                FAdd(FMul(run.config.initial_x, run.config.initial_price),
                     run.config.initial_y))

\* the after_swap calls a strategy host has run, in order
SwapsSeen(host) == SelectSeq(host.seen, LAMBDA c : c.selector = SELECTOR_AFTER_SWAP)

\* the timestamp word of the calldata of an after_swap call
StampOf(calldata) == calldata.words[4].lo

\* the after_swap calls the strategy of pool j receives in a transition
NewSwaps(j) ==
    SubSeq(SwapsSeen(run'.amms[j].strategy),
           Len(SwapsSeen(run.amms[j].strategy)) + 1,
           Len(SwapsSeen(run'.amms[j].strategy)))

\* every trade of the transition is reported to the strategy of pool j with
\* the timestamp of the step
StampedWithStep(j) ==
    \A k \in 1 .. Len(NewSwaps(j)) : StampOf(NewSwaps(j)[k]) = run.t

\* the market (price process, retail trader) and the snapshots are as before
MarketKept ==
    /\ run'.price_process = run.price_process
    /\ run'.fair_price = run.fair_price
    /\ run'.steps = run.steps
    /\ run'.t = run.t

\* a step is: one price step; the arbitrageur at the pools in pool order,
\* one pool a turn; one batch of retail orders, routed on the pools as the
\* arbitrage left them; one snapshot, after which the next step begins
StepInOrder ==
    /\ run.pc = "price" =>
          /\ run'.pc = "arb" /\ run'.i = 1
          /\ run'.price_process = price_step(run.price_process)
          /\ run'.fair_price = run'.price_process.current_price
          /\ run'.amms = run.amms
          /\ run'.retail_trader = run.retail_trader
          /\ run'.steps = run.steps /\ run'.t = run.t
    /\ run.pc = "arb" =>
          /\ run'.i = run.i + 1
          /\ run'.pc = IF run.i < Len(run.amms) THEN "arb" ELSE "retail"
          /\ \A j \in 1 .. Len(run.amms) : j # run.i => run'.amms[j] = run.amms[j]
          /\ StampedWithStep(run.i)
          /\ run'.retail_trader = run.retail_trader
          /\ MarketKept
    /\ run.pc = "retail" =>
          /\ run'.pc = "capture"
          /\ run'.orders = generate_orders(run.retail_trader).orders
          /\ run'.retail_trader.rng = generate_orders(run.retail_trader).rng
          /\ run'.amms = route_orders(run'.orders, run.amms, run.fair_price, run.t).amms
          /\ \A j \in 1 .. Len(run.amms) : StampedWithStep(j)
          /\ MarketKept
    /\ run.pc = "capture" =>
          /\ run'.pc = IF run.t + 1 < run.config.n_steps THEN "price" ELSE "finish"
          /\ run'.t = run.t + 1
          /\ Len(run'.steps) = Len(run.steps) + 1
          /\ SubSeq(run'.steps, 1, Len(run.steps)) = run.steps
          /\ Last(run'.steps).timestamp = run.t
          /\ run'.amms = run.amms
          /\ run'.retail_trader = run.retail_trader
          /\ run'.price_process = run.price_process

\* steps[i].timestamp = i, counting from 0
Stamped(steps) == \A k \in 1 .. Len(steps) : steps[k].timestamp = k - 1

\* the timestamps a strategy has seen never decrease
NeverDecreasing(host) ==
    \A k \in 2 .. Len(SwapsSeen(host)) :
        StampOf(SwapsSeen(host)[k - 1]) <= StampOf(SwapsSeen(host)[k])

\* inside the loop t snapshots are taken; the result holds n_steps of them
SnapshotsCounted ==
    /\ run.pc \in {"price", "arb", "retail", "capture", "finish"} =>
          /\ Len(run.steps) = run.t /\ Stamped(run.steps)
          /\ run.t <= run.config.n_steps
          /\ run.pc = "finish" <=> run.t = run.config.n_steps
          /\ \A j \in 1 .. Len(run.amms) : NeverDecreasing(run.amms[j].strategy)
    /\ run.pc = "done" =>
          /\ Len(run.result.steps) = run.config.n_steps
          /\ Stamped(run.result.steps)
          /\ \A j \in 1 .. Len(run.amms) : NeverDecreasing(run.amms[j].strategy)

\* C22: run executes steps t = 0 .. n_steps-1 in order and within each step
\* does, in this order, one price step, arbitrage on each pool in pool order,
\* one retail batch generation, routing of that batch, one snapshot.  The
\* result holds exactly n_steps snapshots with steps[i].timestamp = i, every
\* trade executed in step t is reported to the strategy with timestamp t (so
\* the timestamps one strategy sees never decrease), and retail routing sees
\* the reserves and fees left by that step's arbitrage.
C22_StepsInOrder == []SnapshotsCounted /\ [][StepInOrder]_vars

\* a finished run of two steps whose submission strategy was told of an
\* arbitrage trade and of retail trades, with timestamp 0 and with 1
C22_Witness ==
    /\ run.pc = "done"
    /\ Len(run.result.steps) = 2
    /\ run.result.arb_volume_y[SubmissionName] # F0
    /\ run.result.retail_volume_y[SubmissionName] # F0
    /\ \E k \in 1 .. Len(SwapsSeen(run.amms[1].strategy)) :
          StampOf(SwapsSeen(run.amms[1].strategy)[k]) = 0
    /\ \E k \in 1 .. Len(SwapsSeen(run.amms[1].strategy)) :
          StampOf(SwapsSeen(run.amms[1].strategy)[k]) = 1

\* ------------------------------------------------------------- SpecBatch
\* One call of run_simulations_parallel: the threads of the pool take the
\* configs in any order, each simulation running on the thread that took it.
BatchInit ==
    /\ \E sb \in BatchSubmissions, cl \in ConfigLists, n \in 1 .. MaxWorkers :
          /\ batch = [submission_bytecode |-> sb,
                      baseline_bytecode |-> BatchBaseline,
                      configs |-> cl, n_workers |-> n]
          /\ slots = [i \in 1 .. Len(cl) |-> Pending]
          /\ workers = [w \in 1 .. n |-> Idle]
    /\ finished = << >>
    /\ ret = NotReturned
    /\ PoolUnused /\ EngineUnused /\ EvalUnused

Failed == {i \in 1 .. Len(slots) : slots[i].state = "done" /\ ~slots[i].res.ok}

\* an idle thread takes a pending config
WorkerTake ==
    /\ ~ret.returned
    /\ \E w \in 1 .. Len(workers), i \in 1 .. Len(slots) :
          /\ workers[w].at = "idle"
          /\ slots[i].state = "pending"
          /\ slots' = [slots EXCEPT ![i] = Taken]
          /\ workers' = [workers EXCEPT ![w].at = "taken", ![w].job = i]
    /\ UNCHANGED << batch, finished, ret, poolVars, engineVars, evalVars >>

\* the closure runs on the thread that took the config: it deploys the
\* strategies and runs the simulation to its return; nothing of it is shared
WorkerRan(w, final) ==
    /\ workers' = [workers EXCEPT ![w] = closure_done(final)]
    /\ slots' = [slots EXCEPT ![workers[w].job] = Done(run_result(final))]
    /\ finished' = Append(finished, workers[w].job)

WorkerRun ==
    /\ \E w \in 1 .. Len(workers) :
          /\ workers[w].at = "taken"
          /\ WorkerRan(w, closure(workers[w], batch, workers[w].job))
    /\ UNCHANGED << batch, ret, poolVars, engineVars, evalVars >>

\* once a simulation has failed, the collection may leave pending ones out
SkipPending ==
    /\ Failed # {}
    /\ \E i \in 1 .. Len(slots) :
          /\ slots[i].state = "pending"
          /\ slots' = [slots EXCEPT ![i] = Skipped]
    /\ UNCHANGED << batch, workers, finished, ret, poolVars, engineVars, evalVars >>

\* the call returns: the error of one of the failed simulations, or all results
BatchReturn ==
    /\ ~ret.returned
    /\ \A i \in 1 .. Len(slots) : slots[i].state \in {"done", "skipped"}
    /\ \E e \in IF Failed = {} THEN {0} ELSE Failed :
          ret' = collect(slots, finished, e)
    /\ UNCHANGED << batch, slots, workers, finished, poolVars, engineVars, evalVars >>

BatchNext ==
    \/ WorkerTake
    \/ WorkerRun
    \/ SkipPending
    \/ BatchReturn

SpecBatch == BatchInit /\ [][BatchNext]_vars
\* the simulations that returned a result
Succeeded == {i \in 1 .. Len(slots) : slots[i].state = "done" /\ slots[i].res.ok}

\* C7: a fatal error in one simulation aborts only that
\* simulation; the others still run and their results are returned.
C7_FailureAbortsOnlyItsSimulation ==
    (ret.returned /\ Failed # {}) =>
        /\ \A i \in 1 .. Len(slots) : slots[i].state = "done"
        /\ ret.ok
        /\ \A i \in Succeeded :
              \E k \in 1 .. Len(ret.results) : ret.results[k] = slots[i].res.result

\* What the runner does instead: a fatal error in one simulation makes the
\* whole call return an error, that of one of the failed simulations, and no
\* result of any simulation; the call returns results, one per config, only
\* when no simulation failed.
FailureAbortsBatch ==
    ret.returned =>
        IF Failed # {}
        THEN /\ ~ret.ok
             /\ ret.err \in {slots[i].res.err : i \in Failed}
             /\ "results" \notin DOMAIN ret
        ELSE /\ ret.ok
             /\ Len(ret.results) = Len(batch.configs)
             /\ \A i \in 1 .. Len(slots) : slots[i].state = "done"

\* the call returned an error although a simulation of the batch had
\* returned its result
C7_Witness ==
    /\ ret.returned /\ ~ret.ok
    /\ Failed # {} /\ Succeeded # {}
    /\ ret.err = "ExecutionFailed"

\* C8: when the call returns results there is one per config, and
\* results[i] is that of configs[i]: its seed is the seed of configs[i] and
\* its initial reserves are those of configs[i], whatever the number of
\* threads and the order in which the simulations ran and ended.
C8_ResultsInConfigOrder ==
    (ret.returned /\ ret.ok) =>
        /\ Len(ret.results) = Len(batch.configs)
        /\ \A i \in 1 .. Len(batch.configs) :
              /\ ret.results[i].seed = seed_of(batch.configs[i])
              /\ ret.results[i].initial_reserves[SubmissionName] =
                    << batch.configs[i].initial_x, batch.configs[i].initial_y >>
              /\ ret.results[i] = slots[i].res.result

\* results returned for two configs of different seeds whose simulations
\* ended in the order opposite to that of the configs, on two threads
C8_Witness ==
    /\ ret.returned /\ ret.ok
    /\ Len(batch.configs) = 2
    /\ seed_of(batch.configs[1]) # seed_of(batch.configs[2])
    /\ finished = << 2, 1 >>
    /\ batch.n_workers = 2

\* what run_simulation returns for each submission and config of the
\* batches, alone: the triples << submission, config, what it returns >>
Alone ==
    {<< sb, c, run_simulation(sb, BatchBaseline, c) >> :
        sb \in BatchSubmissions, c \in BatchConfigs}

\* C9: what a simulation of a batch returns is what run_simulation returns
\* for its config and the two bytecodes alone, whatever else the batch
\* holds, whichever thread ran it and whatever that thread ran before.
C9_ResultOfConfigAndBytecodes ==
    /\ \A i \in 1 .. Len(slots) :
          slots[i].state = "done" =>
              << batch.submission_bytecode, batch.configs[i], slots[i].res >>
                  \in Alone
    /\ (ret.returned /\ ret.ok) =>
          \A i \in 1 .. Len(ret.results) :
              << batch.submission_bytecode, batch.configs[i],
                 RunOk(ret.results[i]) >> \in Alone

\* one thread ran the same config twice, one simulation after the other,
\* with a strategy that changes its storage at every call, and both
\* results are the same
C9_Witness ==
    /\ batch.n_workers = 1
    /\ batch.submission_bytecode.init = "ramp"
    /\ Len(finished) = 2
    /\ batch.configs[1] = batch.configs[2]
    /\ Succeeded = {1, 2}
    /\ slots[1].res = slots[2].res
    /\ workers[1].sim.amms[1].strategy.db # FreshDb
\* ------------------------------------------------------------- SpecEval
\* the edges of the two strategies in the results of the batches
EdgeValues == {FNeg(F1), F0, FRatio(1, 2)}

\* a result of the engine with the edges and the pnl of the two strategies;
\* the winner is a function of `strategies`, `pnl` and `edges` alone
ResultWith(edge_a, edge_b) ==
    [strategies |-> Names,
     pnl |-> [name \in PoolKeys |-> IF name = SubmissionName THEN edge_b ELSE edge_a],
     edges |-> [name \in PoolKeys |-> IF name = SubmissionName THEN edge_a ELSE edge_b]]

SimResults == {ResultWith(a, b) : a, b \in EdgeValues}

\* the results of a batch: runner.rs lines 76-82
BatchOf(results) ==
    [results |-> results,
     strategies |-> IF results = << >> THEN << >> ELSE results[1].strategies]

BatchResults ==
    {BatchOf(results) : results \in UNION {[1 .. n -> SimResults] : n \in 0 .. MaxResults}}

EvalInit ==
    /\ eval = [op |-> "none"]
    /\ PoolUnused /\ EngineUnused /\ BatchUnused

\* one call is made, with any of the inputs
Evaluated(op, arg, out) ==
    /\ eval.op = "none"
    /\ eval' = [op |-> op, arg |-> arg, out |-> out]
    /\ UNCHANGED << poolVars, engineVars, batchVars >>

EvalWinner == \E result \in SimResults : Evaluated("winner", result, winner(result))

EvalWinCounts == \E b \in BatchResults : Evaluated("win_counts", b, win_counts(b))

EvalOverallWinner ==
    \E b \in BatchResults : Evaluated("overall_winner", b, overall_winner(b))

\* the pools the arbitrageur is run on: initialized, with the fees of their
\* strategy, at reserves around and away from the fair prices
ArbReserves ==
    {<< FromInt(1000), FromInt(1000) >>, << FromInt(16), FromInt(16) >>,
     << FromInt(1000), FromInt(2000) >>, << FromInt(3000), FromInt(1000) >>}

ArbPools ==
    {initialize(CFMM_new(EVMStrategy_new(Bytecode(TRUE, "ok", m, m), Name_Submission).v,
                         r[1], r[2])).amm :
        m \in GoodModes, r \in ArbReserves}

\* fair prices: near the spot prices, at the ends of the band of a pool of
\* spot price 1, away from the spot prices, more than 10^4 times the spot
\* price or less than 10^-4 times it, and not positive
FairPrices ==
    {FRatio(1, 2), FRatio(9, 10), F1, FRatio(11, 10), FRatio(12, 10), FromInt(2),
     FRatio(7, 3), FromInt(30000), FRatio(1, 30000),
     FRatio(2049, 2048), FRatio(2055, 2048), FRatio(2056, 2048),
     FRatio(2041, 2048), FRatio(1021, 1024), F0, FNeg(F1)}

EvalArb ==
    \E amm \in ArbPools, p \in FairPrices :
        Evaluated("execute_arb", [amm |-> amm, fair_price |-> p],
                  execute_arb(amm, p, 0))

\* amounts of an execute: negative, zero, too small to move a reserve,
\* ordinary, a pool's whole X reserve, above the reserves, far above them
Tiny == [s |-> 1, m |-> MantLo, e |-> -40]

ExecuteAmounts ==
    {FNeg(F1), F0, Tiny, FromInt(10), FromInt(16), FromInt(1000), FromInt(3000), Huge}

EvalExecuteBuyX ==
    \E amm \in ArbPools, a \in ExecuteAmounts :
        Evaluated("execute_buy_x", [amm |-> amm, amount |-> a],
                  execute_buy_x(amm, a, 0))

EvalExecuteSellX ==
    \E amm \in ArbPools, a \in ExecuteAmounts :
        Evaluated("execute_sell_x", [amm |-> amm, amount |-> a],
                  execute_sell_x(amm, a, 0))

EvalExecuteBuyXWithY ==
    \E amm \in ArbPools, a \in ExecuteAmounts :
        Evaluated("execute_buy_x_with_y", [amm |-> amm, amount |-> a],
                  execute_buy_x_with_y(amm, a, 0))

\* the values of a TradeInfo's fields: zero, one unit, around a byte's
\* range, 1.0, the largest, and negative ones
FieldValues == {0, 1, 255, 256, WAD, RawMax, -1, -WAD}

TradeInfos ==
    {TradeInfo_new(b, v, w, t, w, v) :
        b \in BOOLEAN, v \in FieldValues, w \in FieldValues, t \in {0, 100}}

\* what the reusable buffer holds before: zeroes, ones, or an earlier trade
Buffers ==
    {ZeroBytes(196), [i \in 1 .. 196 |-> 255],
     encode_calldata_into(TradeInfo_new(TRUE, RawMax, RawMax, 7, -1, RawMax),
                          ZeroBytes(196))}

EvalEncode ==
    \E trade \in TradeInfos, buffer \in Buffers :
        Evaluated("encode_calldata", [trade |-> trade, buffer |-> buffer],
                  encode_calldata_into(trade, buffer))

\* the pools an order is split between: initialized, with the fees of their
\* strategy, and two that a trade has drained of a reserve.  The reserves
\* are within a factor of four of each other and of the orders, so that the
\* rounding of Precision bits stays below RoundingSlack.
SplitReserves ==
    {<< FromInt(1000), FromInt(1000) >>, << FromInt(500), FromInt(500) >>,
     << FromInt(1000), FromInt(2000) >>}

SplitPools ==
    {initialize(CFMM_new(EVMStrategy_new(Bytecode(TRUE, "ok", m, m), Name_Submission).v,
                         r[1], r[2])).amm :
        m \in GoodModes, r \in SplitReserves}
    \cup {[initialize(CFMM_new(EVMStrategy_new(Bytecode(TRUE, "ok", "fixed", "fixed"),
                                               Name_Submission).v,
                               FromInt(1000), FromInt(1000))).amm
              EXCEPT !.reserve_x = r[1], !.reserve_y = r[2]] :
             r \in {<< FromInt(2000), F0 >>, << F0, FromInt(2000) >>}}

\* order totals: nothing, a part of a pool, a pool, above every pool
SplitTotals == {F0, FromInt(250), FromInt(500), FromInt(2000)}

\* the split of a total and the marginal prices the router computes for it
SplitOf(side, amm1, amm2, total) ==
    IF side = "buy"
    THEN Let(split_buy_two_amms(amm1, amm2, total), LAMBDA split :
             [split |-> split,
              prices |-> << compute_marginal_price_buy(amm1, split[1]),
                            compute_marginal_price_buy(amm2, split[2]) >>])
    ELSE Let(split_sell_two_amms(amm1, amm2, total), LAMBDA split :
             [split |-> split,
              prices |-> << compute_marginal_price_sell(amm1, split[1]),
                            compute_marginal_price_sell(amm2, split[2]) >>])

EvalSplit ==
    \E side \in {"buy", "sell"}, amm1 \in SplitPools, amm2 \in SplitPools,
       total \in SplitTotals :
        Evaluated("split", [side |-> side, amm1 |-> amm1, amm2 |-> amm2,
                            total |-> total],
                  SplitOf(side, amm1, amm2, total))

\* the pools of a routing between three: one price and fee, another price,
\* another fee, reserves near the dust floor, and a drained pool
ManyPool(mode, reserve_x, reserve_y) ==
    initialize(CFMM_new(EVMStrategy_new(Bytecode(TRUE, "ok", mode, mode),
                                        Name_Submission).v,
                        reserve_x, reserve_y)).amm

ManyPools ==
    {ManyPool("fixed", FromInt(1000), FromInt(1000)),
     ManyPool("fixed", FromInt(1000), FromInt(2000)),
     ManyPool("max", FromInt(1000), FromInt(1000)),
     ManyPool("fixed", FRatio(1, 1024), FRatio(1, 1024)),
     [ManyPool("fixed", FromInt(1000), FromInt(1000))
         EXCEPT !.reserve_x = FromInt(2000), !.reserve_y = F0]}

\* the second and the third pool are of these
OtherPools ==
    {ManyPool("fixed", FromInt(1000), FromInt(1000)),
     ManyPool("max", FromInt(1000), FromInt(1000)),
     ManyPool("fixed", FRatio(1, 1024), FRatio(1, 1024))}

\* "a", "b", "c": the names of the pools by their place
PlaceNames == << << 97 >>, << 98 >>, << 99 >> >>

ThreePools(amm1, amm2, amm3) ==
    << Renamed(amm1, PlaceNames[1]), Renamed(amm2, PlaceNames[2]),
       Renamed(amm3, PlaceNames[3]) >>

\* order sizes: nothing, a part of a pool, above a pool, three dust floors
ManySizes == {F0, FromInt(300), FromInt(1500), FMul(FromInt(3), MIN_AMOUNT)}

\* the fair price of an order by its side
ManyPrice(side) == IF side = "buy" THEN F1 ELSE FromInt(2)

\* the step of the routing
RouteTimes == {7}

EvalRouteMany ==
    \E side \in {"buy", "sell"}, size \in ManySizes, timestamp \in RouteTimes,
       amm1 \in ManyPools, amm2 \in OtherPools, amm3 \in OtherPools :
        Evaluated("route_many",
                  [side |-> side, size |-> size, fair_price |-> ManyPrice(side),
                   timestamp |-> timestamp, amms |-> ThreePools(amm1, amm2, amm3)],
                  many_routed([side |-> side, size |-> size],
                              ThreePools(amm1, amm2, amm3),
                              ManyPrice(side), timestamp))

\* return data of a call: whole 32-byte words, none to three of them, with
\* the upper 16 bytes zero or not and the lower 16 bytes a fee within the
\* range, at its end, just above it, or far above it
ReturnWords ==
    {[hi |-> h, lo |-> l] : h \in {0, 1}, l \in {30 * BPS, MAX_FEE, MAX_FEE + 1, RawMax}}

ReturnData == UNION {[1 .. n -> ReturnWords] : n \in 0 .. MaxWords}

\* decode_fee_pair on the data a call returned, and what after_swap makes
\* of it (strategy.rs lines 186-187)
EvalDecode ==
    \E data \in ReturnData :
        Evaluated("decode_fee_pair", data,
                  [pair |-> decode_fee_pair(data),
                   host |-> FeeDecoded("host", decode_fee_pair(data))])

\* a 32-byte word with the upper 24 bytes zero and the given last 8 bytes
UsizeWord(bytes8) == ZeroBytes(24) \o bytes8

\* a 32-byte word with a byte set among the upper 24
WideWord(n) == << 1 >> \o SubSeq(WordBytes(n), 2, 32)

\* offset words: in the data, at its end, unaligned, behind it, at the top
\* of the 64-bit range (2^64 - 33, 2^64 - 32, 2^64 - 1), above it
OffsetWords ==
    {WordBytes(0), WordBytes(31), WordBytes(32), WordBytes(64), WordBytes(1000),
     UsizeWord(<< 255, 255, 255, 255, 255, 255, 255, 223 >>),
     UsizeWord(<< 255, 255, 255, 255, 255, 255, 255, 224 >>),
     UsizeWord(<< 255, 255, 255, 255, 255, 255, 255, 255 >>),
     WideWord(32), WideWord(64)}

\* length words: short, a word, more than there is, at the top of the
\* 64-bit range (2^64 - 65, 2^64 - 64, 2^64 - 1), above it
LengthWords ==
    {WordBytes(0), WordBytes(2), WordBytes(8), WordBytes(32), WordBytes(33),
     UsizeWord(<< 255, 255, 255, 255, 255, 255, 255, 191 >>),
     UsizeWord(<< 255, 255, 255, 255, 255, 255, 255, 192 >>),
     UsizeWord(<< 255, 255, 255, 255, 255, 255, 255, 255 >>),
     WideWord(2)}

\* the bytes behind the length word: a name, two bytes that are not UTF-8,
\* a two-byte character, nothing
Payloads ==
    {Name_Strategy \o ZeroBytes(24), << 255, 65 >> \o ZeroBytes(30),
     << 195, 169 >> \o ZeroBytes(30), << >>}

\* what getName() returns: an offset word, a length word and a payload, cut
\* to any of these lengths
NameLengths == {0, 63, 64, 65, 96}

NameData ==
    {SubSeq(o \o l \o b, 1, IF n < Len(o \o l \o b) THEN n ELSE Len(o \o l \o b)) :
        o \in OffsetWords, l \in LengthWords, b \in Payloads, n \in NameLengths}

DeployedHost == deploy(Bytecode(TRUE, "named", "fixed", "fixed"), Name_Submission).v

\* fetch_name on the data of a successful getName() call
EvalFetchName ==
    \E data \in NameData :
        Evaluated("fetch_name", data,
                  fetch_name([host |-> DeployedHost, res |-> EvmOk(data)]))

\* the bytecodes of an n-way match: none to MaxBytecodes of them, all
\* deployable or the second not
NWayBytecodes ==
    {[j \in 1 .. n |-> IF j = bad THEN Bytecode(FALSE, "ok", "fixed", "fixed")
                                  ELSE Bytecode(TRUE, "ok", "fixed", "fixed")] :
        n \in 0 .. MaxBytecodes, bad \in {0, 2}}

NWayStep(next) ==
    /\ eval' = next
    /\ UNCHANGED << poolVars, engineVars, batchVars >>

NWayCall ==
    /\ eval.op = "none"
    /\ \E bytecodes \in NWayBytecodes, n_configs \in 0 .. BatchSize :
          NWayStep(run_n_way_simulations_parallel(bytecodes, n_configs))

NWayAt(pc) == eval.op = "run_n_way_simulations_parallel" /\ eval.pc = pc

NWayPool == NWayAt("pool") /\ \E built \in BOOLEAN : NWayStep(n_way_pool(eval, built))

NWayDeploy ==
    /\ NWayAt("deploy")
    /\ NWayStep(IF eval.job > eval.n_configs THEN [eval EXCEPT !.pc = "collect"]
                ELSE n_way_deploy_from(eval, 1))

NWayRun == NWayAt("run") /\ NWayStep(n_way_run(eval))

NWayCollect == NWayAt("collect") /\ NWayStep(n_way_collect(eval))

\* fixed-point values, raw: zero, the smallest unit, 0.0025 and 1000.5 (the
\* values of the benchmark), 0.5, 1, 2, 3, and negative ones
WadValues ==
    {0, 1, -1, Wad_from_bps(25), WAD \div 2, WAD, 2 * WAD, 3 * WAD, -2 * WAD,
     -3 * WAD + 1, Wad_from_f64(FRatio(2001, 2)), -Wad_from_f64(FRatio(2001, 2))}

\* the values whose square root is taken
SqrtValues ==
    {-WAD, 0, 1, Wad_from_bps(25), WAD \div 2, WAD, 2 * WAD, 3 * WAD, 4 * WAD,
     9 * WAD, 10 * WAD, Wad_from_f64(FRatio(2001, 2))}

EvalWmul ==
    \E a, b \in WadValues, overflow_checks \in BOOLEAN :
        Evaluated("wmul", << a, b >>, wmul(a, b, overflow_checks))

EvalWdiv ==
    \E a, b \in WadValues, overflow_checks \in BOOLEAN :
        Evaluated("wdiv", << a, b >>, wdiv(a, b, overflow_checks))

EvalSqrt ==
    \E v \in SqrtValues, overflow_checks \in BOOLEAN :
        Evaluated("sqrt", v, Wad_sqrt(v, overflow_checks))

EvalNext ==
    \/ EvalWinner
    \/ EvalWinCounts
    \/ EvalOverallWinner
    \/ EvalArb
    \/ EvalDecode
    \/ EvalFetchName
    \/ EvalSplit
    \/ EvalRouteMany
    \/ EvalEncode
    \/ EvalExecuteBuyX
    \/ EvalExecuteSellX
    \/ EvalExecuteBuyXWithY
    \/ EvalWmul
    \/ EvalWdiv
    \/ EvalSqrt
    \/ NWayCall
    \/ NWayPool
    \/ NWayDeploy
    \/ NWayRun
    \/ NWayCollect

SpecEval == EvalInit /\ [][EvalNext]_vars

\* the simulations of a batch in which the edge of strategy p is strictly
\* above that of strategy q
WonBy(b, p, q) ==
    {i \in 1 .. Len(b.results) :
        FGt(b.results[i].edges[Names[p]], b.results[i].edges[Names[q]])}

\* the simulations of a batch with equal edges
Drawn(b) ==
    {i \in 1 .. Len(b.results) :
        b.results[i].edges[Names[1]] = b.results[i].edges[Names[2]]}

\* the winner of a result is the strategy with the strictly higher edge
WinnerByEdge ==
    eval.op = "winner" =>
        /\ eval.out.some =>
              /\ eval.out.v \in PoolKeys
              /\ \A name \in PoolKeys \ {eval.out.v} :
                    FGt(eval.arg.edges[eval.out.v], eval.arg.edges[name])
        /\ ~eval.out.some <=>
              eval.arg.edges[SubmissionName] = eval.arg.edges[BaselineName]

\* every simulation is counted once, where its edges put it
CountsPartition ==
    eval.op = "win_counts" =>
        /\ eval.out[1] = Cardinality(WonBy(eval.arg, 1, 2))
        /\ eval.out[2] = Cardinality(WonBy(eval.arg, 2, 1))
        /\ eval.out[3] = Cardinality(Drawn(eval.arg))
        /\ eval.out[1] + eval.out[2] + eval.out[3] = Len(eval.arg.results)
        /\ \A i \in 1 .. Len(eval.arg.results) :
              /\ i \in WonBy(eval.arg, 1, 2) <=>
                    winner(eval.arg.results[i]) = SomeName(Names[1])
              /\ i \in WonBy(eval.arg, 2, 1) <=>
                    winner(eval.arg.results[i]) = SomeName(Names[2])
              /\ i \in Drawn(eval.arg) <=> winner(eval.arg.results[i]) = NoName

\* the overall winner has strictly more simulations won
OverallByWins ==
    eval.op = "overall_winner" =>
        /\ eval.out = SomeName(Names[1]) <=>
              Cardinality(WonBy(eval.arg, 1, 2)) > Cardinality(WonBy(eval.arg, 2, 1))
        /\ eval.out = SomeName(Names[2]) <=>
              Cardinality(WonBy(eval.arg, 2, 1)) > Cardinality(WonBy(eval.arg, 1, 2))
        /\ eval.out = NoName <=>
              Cardinality(WonBy(eval.arg, 1, 2)) = Cardinality(WonBy(eval.arg, 2, 1))

\* C15: for a result of two strategies the winner of a simulation is the
\* strategy with the strictly higher edges value, equal edges being a draw;
\* win_counts puts every simulation of the batch in exactly one of wins_a,
\* wins_b and draws, whose sum is the number of results; overall_winner is
\* the strategy with strictly more simulations won, none when the two counts
\* are equal.
C15_WinnerByEdges == WinnerByEdge /\ CountsPartition /\ OverallByWins

\* the counts of a batch of three simulations: one won by each strategy and
\* one drawn
C15_Witness ==
    /\ eval.op = "win_counts"
    /\ Len(eval.arg.results) = 3
    /\ eval.out = << 1, 1, 1 >>
    /\ overall_winner(eval.arg) = NoName

\* y / x of a pool
SpotOf(amm) == FDiv(amm.reserve_y, amm.reserve_x)

\* 1 - fee, of a fee in Wad
GammaOf(fee) == FSub(F1, Wad_to_f64(fee))

\* the ends of the no-arbitrage band of a pool with the fees of amm at the
\* fair price p
BandLow(amm, p) == FMul(p, GammaOf(amm.current_fees.ask_fee))
BandHigh(amm, p) == FDiv(p, GammaOf(amm.current_fees.bid_fee))

\* the spot price of the pool after is in the band of the fees before, at p
InBand(before, after, p) ==
    /\ FGe(SpotOf(after), BandLow(before, p))
    /\ FLe(SpotOf(after), BandHigh(before, p))

\* the same with the band widened by the relative tolerance tol
NearBand(before, after, p, tol) ==
    /\ FGe(SpotOf(after), FMul(BandLow(before, p), FSub(F1, tol)))
    /\ FLe(SpotOf(after), FMul(BandHigh(before, p), FAdd(F1, tol)))

\* the withdrawal that would bring the pool to the band is above 0.99 * x
CapApplies(amm, p) ==
    /\ FLt(SpotOf(amm), p)
    /\ FGt(FSub(amm.reserve_x,
                FSqrt(FDiv(k_of(amm), FMul(GammaOf(amm.current_fees.ask_fee), p)))),
           FMul(amm.reserve_x, FRatio(99, 100)))

\* by how much the trade shrank a reserve: max(x / x', y / y')
Shrinkage(before, after) ==
    FMax(FDiv(before.reserve_x, after.reserve_x),
         FDiv(before.reserve_y, after.reserve_y))

\* 8 * sqrt(2^-Precision), rounded up to a power of two
RootSlack == [s |-> 1, m |-> MantLo, e |-> 4 - Precision - Precision \div 2]

\* C16 as stated: after execute_arb against a fair price p > 0 the spot
\* price is in the band, whatever the reserves and the fair price, the cap
\* applying or not
C16_SpotInBand ==
    (eval.op = "execute_arb" /\ FGt(eval.arg.fair_price, F0)) =>
        InBand(eval.arg.amm, eval.out.amm, eval.arg.fair_price)

\* C16 amended: after execute_arb on a pool against a fair price p > 0,
\* with gamma = 1 - the fee in force before the trade: when it trades and
\* the 0.99*x cap does not apply, the spot price is in
\* [p*gamma_ask, p/gamma_bid] up to rounding, within the relative distance
\* 16 * 2^-Precision * max(x/x', y/y') of the band; when the cap applies the
\* pool sells 0.99*x and the spot price stays below p*gamma_ask; when it
\* does not trade the pool is as it was and its spot price is within the
\* relative distance 8 * sqrt(2^-Precision) of the band.
C16_SpotInBandUnlessCapped ==
    (eval.op = "execute_arb" /\ FGt(eval.arg.fair_price, F0)) =>
        IF CapApplies(eval.arg.amm, eval.arg.fair_price)
        THEN /\ eval.out.arb.some
             /\ eval.out.amm.reserve_x =
                    FSub(eval.arg.amm.reserve_x,
                         FMul(eval.arg.amm.reserve_x, FRatio(99, 100)))
             /\ FLt(SpotOf(eval.out.amm), BandLow(eval.arg.amm, eval.arg.fair_price))
             /\ FGt(SpotOf(eval.out.amm), SpotOf(eval.arg.amm))
        ELSE IF eval.out.arb.some
        THEN NearBand(eval.arg.amm, eval.out.amm, eval.arg.fair_price,
                      FMul(RoundingSlack, Shrinkage(eval.arg.amm, eval.out.amm)))
        ELSE /\ eval.out.amm = eval.arg.amm
             /\ NearBand(eval.arg.amm, eval.out.amm, eval.arg.fair_price, RootSlack)

\* a trade without the cap that left the spot price outside the band, by
\* rounding
C16_Witness ==
    /\ eval.op = "execute_arb"
    /\ eval.out.arb.some
    /\ ~CapApplies(eval.arg.amm, eval.arg.fair_price)
    /\ ~InBand(eval.arg.amm, eval.out.amm, eval.arg.fair_price)
    /\ eval.arg.amm.current_fees.ask_fee # 0

\* the return data the decoding accepts
WellFormed(data) ==
    /\ 32 * Len(data) >= 64
    /\ data[1].hi = 0 /\ data[2].hi = 0
    /\ data[1].lo <= MAX_FEE /\ data[2].lo <= MAX_FEE

\* C17: decode_fee_pair accepts return data exactly when it has at least 64
\* bytes, each of the first two 32-byte words has its upper 16 bytes zero
\* and both words are <= MAX_FEE, and then returns the two words as
\* (bid, ask); otherwise the whole pair is rejected and the host call fails
\* with InvalidReturnData: a fee out of range is never accepted and clamped.
C17_FeePairDecoded ==
    eval.op = "decode_fee_pair" =>
        /\ eval.out.pair.some <=> WellFormed(eval.arg)
        /\ eval.out.host.ok <=> WellFormed(eval.arg)
        /\ WellFormed(eval.arg) =>
              /\ eval.out.pair.bid = eval.arg[1].lo
              /\ eval.out.pair.ask = eval.arg[2].lo
              /\ eval.out.host.bid = eval.arg[1].lo
              /\ eval.out.host.ask = eval.arg[2].lo
        /\ ~WellFormed(eval.arg) =>
              /\ eval.out.pair = NoFees
              /\ eval.out.host.err = "InvalidReturnData"

\* 64 bytes whose first word is MAX_FEE + 1 and whose second word is a fee
\* in range: rejected
C17_Witness ==
    /\ eval.op = "decode_fee_pair"
    /\ Len(eval.arg) = 2
    /\ eval.arg[1] = [hi |-> 0, lo |-> MAX_FEE + 1]
    /\ eval.arg[2] = [hi |-> 0, lo |-> 30 * BPS]
    /\ ~eval.out.pair.some
    /\ ~eval.out.host.ok

\* the call returned the error of one of the validations of the number of
\* strategies
CountRejected ==
    /\ eval.pc = "returned"
    /\ eval.ret.kind = "InvalidConfig"
    /\ eval.ret.msg \in {TooFew, TooMany}

WadDomain == RawMax \div 9

InDomain(v) == IAbs(v) < WadDomain

\* floor(n / d)
FloorDiv(n, d) == IF d > 0 THEN n \div d ELSE (-n) \div (-d)

\* a * b is in the integers' range
Fits(a, b) == ~Overflows(ISign(a) * ISign(b), WideMul(IAbs(a), IAbs(b)))

\* C18 as stated: for all fixed-point values a and b of the domain, wmul(a, b)
\* returns floor(a*b/ONE) and wdiv(a, b) returns floor(a*ONE/b), 0 when
\* b = 0, and neither fails or overflows the integer.
C18_WmulWdivExact ==
    /\ (eval.op = "wmul" /\ InDomain(eval.arg[1]) /\ InDomain(eval.arg[2])) =>
          /\ Fits(eval.arg[1], eval.arg[2])
          /\ eval.out = IntOk(FloorDiv(eval.arg[1] * eval.arg[2], WAD))
    /\ (eval.op = "wdiv" /\ InDomain(eval.arg[1]) /\ InDomain(eval.arg[2])) =>
          IF eval.arg[2] = 0 THEN eval.out = IntOk(0)
          ELSE /\ Fits(eval.arg[1], WAD)
               /\ eval.out = IntOk(FloorDiv(eval.arg[1] * WAD, eval.arg[2]))

\* wdiv(1000.5, 0.0025), the call of the benchmark, in a build without
\* overflow checks: the product a * ONE wrapped and the quotient is not
\* floor(a*ONE/b)
C18_Witness ==
    /\ eval.op = "wdiv"
    /\ eval.arg = << Wad_from_f64(FRatio(2001, 2)), Wad_from_bps(25) >>
    /\ ~Fits(eval.arg[1], WAD)
    /\ eval.out.ok
    /\ eval.out.v < 0

\* C19 as stated: Wad::sqrt returns 0 for every v <= 0 and, for every v > 0 of the
\* domain, returns the integer square root r of v*ONE, r*r <= v*ONE <
\* (r+1)*(r+1), without overflowing the integer.
C19_SqrtExact ==
    eval.op = "sqrt" =>
        IF eval.arg <= 0 THEN eval.out = IntOk(0)
        ELSE InDomain(eval.arg) =>
                /\ Fits(eval.arg, WAD)
                /\ eval.out.ok
                /\ eval.out.v >= 0
                /\ eval.out.v * eval.out.v <= eval.arg * WAD
                /\ eval.arg * WAD < (eval.out.v + 1) * (eval.out.v + 1)

\* sqrt(1000.5), the call of the benchmark, in a build without overflow
\* checks: v * ONE wrapped and what is returned is not the square root
C19_Witness ==
    /\ eval.op = "sqrt"
    /\ eval.arg = Wad_from_f64(FRatio(2001, 2))
    /\ ~Fits(eval.arg, WAD)
    /\ eval.out.ok
    /\ eval.out.v < 0

\* the number a 32-byte word stands for is at most n (n below 2^24)
WordAtMost(word, n) ==
    /\ \A i \in 1 .. 29 : word[i] = 0
    /\ (word[30] * 256 + word[31]) * 256 + word[32] <= n

WordValue(word) == (word[30] * 256 + word[31]) * 256 + word[32]

\* the bytes of the string that data encodes, when its offset word points
\* at a length word inside data and that many bytes follow it
StringAt(data, o) ==
    SubSeq(data, o + 33, o + 32 + WordValue(SubSeq(data, o + 1, o + 32)))

WellFormedString(data) ==
    /\ Len(data) >= 64
    /\ WordAtMost(SubSeq(data, 1, 32), Len(data) - 32)
    /\ WordAtMost(SubSeq(data, WordValue(SubSeq(data, 1, 32)) + 1,
                         WordValue(SubSeq(data, 1, 32)) + 32),
                  Len(data) - 32 - WordValue(SubSeq(data, 1, 32)))
    /\ from_utf8(StringAt(data, WordValue(SubSeq(data, 1, 32))))

\* C21 as stated: for every byte string a successful getName() call can
\* return, construction completes without failing or crashing, and the
\* host's name is the decoded string when the data is a well-formed
\* dynamic-string encoding of valid UTF-8 and the default name otherwise.
C21_NameDecodedOrDefault ==
    eval.op = "fetch_name" =>
        /\ eval.out.ok
        /\ eval.out.v.name =
              IF WellFormedString(eval.arg)
              THEN StringAt(eval.arg, WordValue(SubSeq(eval.arg, 1, 32)))
              ELSE Name_Submission

\* getName() returned 64 bytes whose offset word is 2^64 - 32: offset + 32
\* overflows and the construction panics
C21_Witness ==
    /\ eval.op = "fetch_name"
    /\ eval.arg = UsizeWord(<< 255, 255, 255, 255, 255, 255, 255, 224 >>)
                     \o WordBytes(8)
    /\ ~WellFormedString(eval.arg)
    /\ eval.out = Panic
\* the pool sold the X of the result at the ask fee, at a profit to the
\* arbitrageur
ArbSoldX(before, p, out) ==
    /\ out.arb.side = "sell"
    /\ out.amm = execute_sell_x(before, out.arb.amount_x, 0).amm
    /\ out.arb.amount_y = quote_sell_x(before, out.arb.amount_x)[1]
    /\ FLt(out.amm.reserve_x, before.reserve_x)
    /\ FGt(out.amm.reserve_y, before.reserve_y)
    /\ out.amm.accumulated_fees_x = before.accumulated_fees_x
    /\ before.current_fees.ask_fee # 0 =>
          FGt(out.amm.accumulated_fees_y, before.accumulated_fees_y)
    /\ LastSeen(out.amm).words[1].lo = 0
    /\ out.arb.profit = FSub(FMul(out.arb.amount_x, p), out.arb.amount_y)

\* the pool bought the X of the result at the bid fee, at a profit to the
\* arbitrageur
ArbBoughtX(before, p, out) ==
    /\ out.arb.side = "buy"
    /\ out.amm = execute_buy_x(before, out.arb.amount_x, 0).amm
    /\ out.arb.amount_y = quote_buy_x(before, out.arb.amount_x)[1]
    /\ FGt(out.amm.reserve_x, before.reserve_x)
    /\ FLt(out.amm.reserve_y, before.reserve_y)
    /\ out.amm.accumulated_fees_y = before.accumulated_fees_y
    /\ before.current_fees.bid_fee # 0 =>
          FGt(out.amm.accumulated_fees_x, before.accumulated_fees_x)
    /\ LastSeen(out.amm).words[1].lo = 1
    /\ out.arb.profit = FSub(out.arb.amount_y, FMul(out.arb.amount_x, p))

ArbDirected(before, p, out) ==
    /\ (FLe(p, F0) \/ SpotOf(before) = p) => ~out.arb.some
    /\ (FLe(GammaOf(before.current_fees.ask_fee), F0) /\ FLt(SpotOf(before), p)) =>
          ~out.arb.some
    /\ (FLe(GammaOf(before.current_fees.bid_fee), F0) /\ FGt(SpotOf(before), p)) =>
          ~out.arb.some
    /\ IF out.arb.some
       THEN /\ FGt(out.arb.profit, F0)
            /\ FGt(out.arb.amount_x, F0)
            /\ IF FLt(SpotOf(before), p) THEN ArbSoldX(before, p, out)
               ELSE ArbBoughtX(before, p, out)
            /\ CalledOnce(before, out.amm)
            /\ PoolState(out.amm) # PoolState(before)
       ELSE out.amm = before

\* C23: execute_arb trades in the direction fixed by the spot price: when
\* spot < p the only possible trade is the pool selling X (execute_sell_x,
\* at the ask fee), when spot > p the pool buying X (execute_buy_x, at the
\* bid fee); when spot = p, or the computed profit is <= 0, or gamma <= 0, or
\* p <= 0, it returns no result, leaves the pool's reserves, fees and
\* accumulated fees unchanged and does not call the strategy.  It returns a
\* result exactly when it changed the pool.
C23_ArbDirection ==
    eval.op = "execute_arb" => ArbDirected(eval.arg.amm, eval.arg.fair_price, eval.out)

\* the arbitrageur bought X from a pool whose spot price was below the fair
\* price, at fees that differ between the sides
C23_Witness ==
    /\ eval.op = "execute_arb"
    /\ FLt(SpotOf(eval.arg.amm), eval.arg.fair_price)
    /\ eval.arg.amm.current_fees.ask_fee # eval.arg.amm.current_fees.bid_fee
    /\ eval.out.arb.some
    /\ eval.out.arb.side = "sell"
    /\ FLt(eval.out.amm.reserve_x, eval.arg.amm.reserve_x)

\* the quote an execute function takes on the pool
QuoteFor(op, amm, amount) ==
    CASE op = "execute_buy_x"        -> quote_buy_x(amm, amount)
      [] op = "execute_sell_x"       -> quote_sell_x(amm, amount)
      [] op = "execute_buy_x_with_y" -> quote_x_for_y(amm, amount)

\* the amount is one for which there is no quote
NoQuoteFor(op, amm, amount) ==
    \/ FLe(amount, F0)
    \/ op = "execute_sell_x" /\ FGe(amount, amm.reserve_x)

QuoteZeroNoTrade ==
    eval.op \in ExecuteOps =>
        /\ NoQuoteFor(eval.op, eval.arg.amm, eval.arg.amount) =>
              QuoteFor(eval.op, eval.arg.amm, eval.arg.amount) = NoQuote
        /\ FLe(QuoteFor(eval.op, eval.arg.amm, eval.arg.amount)[1], F0) =>
              /\ ~eval.out.ret.some
              /\ eval.out.amm = eval.arg.amm
              /\ PoolState(eval.out.amm) = PoolState(eval.arg.amm)
              /\ eval.out.amm.strategy.seen = eval.arg.amm.strategy.seen

\* C25: when the underlying quote is zero (amount <= 0, for execute_sell_x
\* an amount >= reserve_x, or a non-positive output), an execute function
\* returns nothing and changes nothing: reserves, accumulated fees and fee
\* quote are unchanged and the strategy's after_swap is not called.
C25_ZeroQuoteChangesNothing == QuoteZeroNoTrade

\* execute_sell_x of the pool's whole X reserve: no quote, nothing returned,
\* the pool as it was
C25_Witness ==
    /\ eval.op = "execute_sell_x"
    /\ eval.arg.amount = eval.arg.amm.reserve_x
    /\ ~eval.out.ret.some
    /\ eval.out.amm = eval.arg.amm

\* the number a sequence of big-endian bytes stands for, when it is below
\* 2^31
BigEndian(bytes) ==
    IF \E i \in 1 .. Len(bytes) - 4 : bytes[i] # 0 THEN -1
    ELSE ((bytes[Len(bytes) - 3] * 256 + bytes[Len(bytes) - 2]) * 256
              + bytes[Len(bytes) - 1]) * 256 + bytes[Len(bytes)]

\* `u as i128` of a u128 whose value as i128 is within 32 bits
as_i128(u) ==
    (((u[13] - (IF u[1] = 255 THEN 256 ELSE 0)) * 256 + u[14]) * 256 + u[15]) * 256
        + u[16]

\* the k-th 32-byte word behind the selector
WordOf(bytes, k) == SubSeq(bytes, 4 + 32 * (k - 1) + 1, 4 + 32 * k)

FieldsOf(trade) ==
    << IF trade.is_buy THEN 1 ELSE 0, trade.amount_x, trade.amount_y,
       trade.timestamp, trade.reserve_x, trade.reserve_y >>

\* the bytes are the selector and the six words of the trade: each word has
\* its upper 16 bytes zero, decodes to the u128 that was encoded, which as
\* i128 is the field, and is the big-endian number of a field that is not
\* negative
EncodedAs(bytes, trade) ==
    /\ Len(bytes) = 196
    /\ SubSeq(bytes, 1, 4) = << 194, 186, 187, 87 >>
    /\ \A i \in 5 .. 35 : bytes[i] = 0
    /\ bytes[36] = (IF trade.is_buy THEN 1 ELSE 0)
    /\ \A k \in 1 .. 6 :
          /\ decode_u256_bytes(WordOf(bytes, k)).some
          /\ decode_u256_bytes(WordOf(bytes, k)).v = as_u128(FieldsOf(trade)[k])
          /\ as_i128(decode_u256_bytes(WordOf(bytes, k)).v) = FieldsOf(trade)[k]
          /\ FieldsOf(trade)[k] >= 0 =>
                /\ BigEndian(WordOf(bytes, k)) = FieldsOf(trade)[k]
                /\ encode_calldata(trade).words[k] =
                       [hi |-> 0, lo |-> BigEndian(WordOf(bytes, k))]

\* C26: encode_calldata always produces the same 196 bytes for the same
\* TradeInfo, whatever the reusable buffer held before (every byte is
\* overwritten): the selector c2babb57, then six 32-byte big-endian words
\* is_buy (0 or 1, carried in byte 35), amount_x, amount_y, timestamp,
\* reserve_x, reserve_y; decoding any encoded word gives back the value that
\* was encoded.
C26_CalldataEncoded ==
    eval.op = "encode_calldata" =>
        /\ EncodedAs(eval.out, eval.arg.trade)
        /\ eval.out = encode_calldata_into(eval.arg.trade, ZeroBytes(196))

\* a trade that is not a buy, encoded into the buffer that held a buy
C26_Witness ==
    /\ eval.op = "encode_calldata"
    /\ ~eval.arg.trade.is_buy
    /\ eval.arg.buffer[36] = 1
    /\ eval.arg.buffer[1] = 194
    /\ eval.arg.trade.amount_x = WAD
    /\ eval.out[36] = 0
    /\ eval.out # eval.arg.buffer

\* ------------------------------------------------------------- C27
\* the split is interior: neither clamped to 0 nor to the order total
Interior(split, total) == FGt(split[1], F0) /\ FLt(split[1], total)

\* two values are equal up to the rounding of the arithmetic between them
NearlyEqual(a, b) ==
    FLe(FAbs(FSub(a, b)), FMul(RoundingSlack, FMax(FAbs(a), FAbs(b))))

\* the fee-appropriate gamma of a pool on a side
GammaOn(side, amm) ==
    FSub(F1, Wad_to_f64(IF side = "buy" THEN amm.current_fees.ask_fee
                        ELSE amm.current_fees.bid_fee))

SameGamma(side, amm1, amm2) == GammaOn(side, amm1) = GammaOn(side, amm2)

SameReserves(amm1, amm2) ==
    amm1.reserve_x = amm2.reserve_x /\ amm1.reserve_y = amm2.reserve_y

\* what the split equalises: the marginal prices of two pools of one fee
PricesEqualForEqualFees ==
    (/\ eval.op = "split"
     /\ Interior(eval.out.split, eval.arg.total)
     /\ SameGamma(eval.arg.side, eval.arg.amm1, eval.arg.amm2))
    => NearlyEqual(eval.out.prices[1], eval.out.prices[2])

\* and of two pools of different fees: the prices net of the fee, the Y paid
\* for the next X bought from the pool (y'/x' over gamma) or received for the
\* next X sold to it (y'/x' times gamma)
NetPrice(side, amm, price) ==
    IF side = "buy" THEN FDiv(price, GammaOn(side, amm))
    ELSE FMul(price, GammaOn(side, amm))

NetPricesEqual ==
    (eval.op = "split" /\ Interior(eval.out.split, eval.arg.total))
    => NearlyEqual(NetPrice(eval.arg.side, eval.arg.amm1, eval.out.prices[1]),
                   NetPrice(eval.arg.side, eval.arg.amm2, eval.out.prices[2]))

\* C27: when the two-pool split is interior, the marginal prices y'/x' the
\* router computes for the two pools after their allocations are equal (up
\* to rounding), whatever the reserves and the fees of the two pools; two
\* pools of identical reserves and fees each receive half of the order.
C27_MarginalPricesEqual ==
    eval.op = "split" =>
        /\ Interior(eval.out.split, eval.arg.total)
           => NearlyEqual(eval.out.prices[1], eval.out.prices[2])
        /\ (/\ SameReserves(eval.arg.amm1, eval.arg.amm2)
            /\ eval.arg.amm1.current_fees = eval.arg.amm2.current_fees
            /\ eval.arg.amm1.reserve_x # F0 /\ eval.arg.amm1.reserve_y # F0)
           => NearlyEqual(eval.out.split[1], eval.out.split[2])

\* an order split in its interior between two pools of different fees
C27_Witness ==
    /\ eval.op = "split"
    /\ Interior(eval.out.split, eval.arg.total)
    /\ ~SameGamma(eval.arg.side, eval.arg.amm1, eval.arg.amm2)
    /\ SameReserves(eval.arg.amm1, eval.arg.amm2)
    /\ ~NearlyEqual(eval.out.prices[1], eval.out.prices[2])

\* ------------------------------------------------------------- C28
\* the relative gaps of all pairs of prices that are numbers
GapsOf(prices) ==
    {price_gap(prices[i], prices[j]) : i \in 1..Len(prices), j \in 1..Len(prices)}
        \ {NotFinite}

Converged(prices) == \A gap \in GapsOf(prices) : FLt(gap, CONVERGENCE_THRESHOLD)

\* a pair of the largest gap, which is not below the threshold
WorstPair(prices, idx1, idx2) ==
    /\ idx1 < idx2
    /\ price_gap(prices[idx1], prices[idx2]) \in GapsOf(prices)
    /\ \A gap \in GapsOf(prices) : FLe(gap, price_gap(prices[idx1], prices[idx2]))

\* allocations `after` are `before` with the total of one pair split again
\* by the closed form of two pools
PairRebalanced(amms, side, before, after, idx1, idx2) ==
    /\ \A i \in 1..Len(before) : i \notin {idx1, idx2} => after[i] = before[i]
    /\ << after[idx1], after[idx2] >> =
          IF side = "buy"
          THEN split_buy_two_amms(amms[idx1], amms[idx2],
                                  FAdd(before[idx1], before[idx2]))
          ELSE split_sell_two_amms(amms[idx1], amms[idx2],
                                   FAdd(before[idx1], before[idx2]))

\* what follows pass k of the loop: the allocations of the next pass, or the
\* final allocations after the last pass
AllocationsAfter(routed, k) ==
    IF k < Len(routed.passes) THEN routed.passes[k + 1].allocations
    ELSE routed.allocations

\* the loop of a routing: at most MAX_ITERATIONS passes, each either the
\* last because the prices have converged, or a rebalance of a worst pair
LoopBounded(amms, side, routed) ==
    /\ Len(routed.passes) \in 1..MAX_ITERATIONS
    /\ \A k \in 1..Len(routed.passes) :
        Let(routed.passes[k], LAMBDA pass :
            /\ pass.prices = marginal_prices(amms, side, pass.allocations)
            /\ IF Converged(pass.prices)
               THEN k = Len(routed.passes)
                    /\ AllocationsAfter(routed, k) = pass.allocations
               ELSE /\ WorstPair(pass.prices, pass.best_pair[1], pass.best_pair[2])
                    /\ PairRebalanced(amms, side, pass.allocations,
                                      AllocationsAfter(routed, k),
                                      pass.best_pair[1], pass.best_pair[2])
                    /\ k < Len(routed.passes) \/ k = MAX_ITERATIONS)

\* the trades of the pool at place i among the trades of a routing
LegsOf(trades, i) == SelectSeq(trades, LAMBDA trade : trade.amm_name = PlaceNames[i])

\* the execute of the router on a pool, for an order side
ExecuteOn(side, amm, amount, timestamp) ==
    IF side = "buy" THEN execute_buy_x_with_y(amm, amount, timestamp)
    ELSE execute_buy_x(amm, amount, timestamp)

\* the pool at place i after the routing: untouched below the dust floor,
\* and otherwise after one execute of its allocation, with one trade
\* reported if the execute gave a result
LegExecuted(amms, side, timestamp, routed, i) ==
    IF FLt(routed.allocations[i], MIN_AMOUNT)
    THEN routed.amms[i] = amms[i] /\ LegsOf(routed.trades, i) = << >>
    ELSE Let(ExecuteOn(side, amms[i], routed.allocations[i], timestamp), LAMBDA r :
             /\ routed.amms[i] = r.amm
             /\ Len(LegsOf(routed.trades, i)) = IF r.ret.some THEN 1 ELSE 0
             /\ \A trade \in {LegsOf(routed.trades, i)[n] :
                                 n \in 1..Len(LegsOf(routed.trades, i))} :
                    (IF side = "buy" THEN trade.amount_y ELSE trade.amount_x)
                        = routed.allocations[i])

InPoolOrder(trades) ==
    \A m \in 1..Len(trades), n \in 1..Len(trades) :
        m < n => \E i \in 1..3, j \in 1..3 :
                    /\ i < j
                    /\ trades[m].amm_name = PlaceNames[i]
                    /\ trades[n].amm_name = PlaceNames[j]

SplitsTotal(split, total) ==
    /\ FLe(F0, split[1]) /\ FLe(split[1], total)
    /\ split[2] = FSub(total, split[1])
    /\ FLe(F0, split[2])

Drained(amm) == amm.reserve_x = F0 \/ amm.reserve_y = F0

\* the two-pool split never allocates more or less than the order, and
\* gives everything to the first pool when the second has a zero reserve
TwoPoolSplitExact ==
    eval.op = "split" =>
        /\ SplitsTotal(eval.out.split, eval.arg.total)
        /\ Drained(eval.arg.amm2) => eval.out.split = << eval.arg.total, F0 >>

RECURSIVE FSum(_)
FSum(amounts) ==
    IF amounts = << >> THEN F0
    ELSE FAdd(FSum(SubSeq(amounts, 1, Len(amounts) - 1)), amounts[Len(amounts)])

\* the allocations before every pass of the loop, and the final ones
AllocationsOf(routed) ==
    {routed.passes[k].allocations : k \in 1..Len(routed.passes)}
        \cup {routed.allocations}

NoneNegative(allocations) ==
    \A i \in 1..Len(allocations) : FLe(F0, allocations[i])

\* 32 units of rounding: one for the equal split, two for each of the ten
\* rebalances, and those of the sum itself
SumSlack == FMul(FromInt(2), RoundingSlack)

\* C29 as stated: the two-pool split returns (a1, a2) with 0 <= a1 <= T and
\* a2 = T - a1, and between three pools every allocation is >= 0 and the
\* allocations sum to the order total before and after every rebalance.
C29_AllocationsSumToOrder ==
    /\ TwoPoolSplitExact
    /\ eval.op = "route_many" =>
        \A allocations \in AllocationsOf(eval.out) :
            /\ NoneNegative(allocations)
            /\ FSum(allocations) = eval.out.total_amount

\* C29 amended: the same, the sum of the allocations between three pools
\* being the order total T up to rounding: |sum - T| <= 32 * 2^-Precision * T.
C29_AllocationsSumUpToRounding ==
    /\ TwoPoolSplitExact
    /\ eval.op = "route_many" =>
        \A allocations \in AllocationsOf(eval.out) :
            /\ NoneNegative(allocations)
            /\ FLe(FAbs(FSub(FSum(allocations), eval.out.total_amount)),
                   FMul(SumSlack, eval.out.total_amount))

\* a routing between three pools that rebalanced and whose final allocations
\* do not sum to the order total exactly
C29_Witness ==
    /\ eval.op = "route_many"
    /\ Len(eval.out.passes) > 1
    /\ FSum(eval.out.allocations) # eval.out.total_amount
    /\ \A i \in 1..3 : FGt(eval.out.allocations[i], F0)

\* ------------------------------------------------------------- C30
\* the calls the strategy of pool j had received are kept, and those it
\* receives in the transition are after_swap calls
LogExtended(j) ==
    /\ SubSeq(run'.amms[j].strategy.seen, 1, Len(run.amms[j].strategy.seen))
          = run.amms[j].strategy.seen
    /\ Len(run'.amms[j].strategy.seen)
          = Len(run.amms[j].strategy.seen) + Len(NewSwaps(j))

\* an after_swap call is the report of a routed trade: its direction, the
\* step, the amount the router gave in and the amount it reports out
SwapOfTrade(calldata, trade, timestamp) ==
    /\ calldata.words[1].lo = (IF trade.amm_buys_x THEN 1 ELSE 0)
    /\ StampOf(calldata) = timestamp
    /\ IF trade.amm_buys_x
       THEN /\ calldata.words[2].lo = Wad_from_f64(trade.amount_x)
            /\ trade.amount_y = Wad_to_f64(calldata.words[3].lo)
       ELSE /\ calldata.words[3].lo = Wad_from_f64(trade.amount_y)
            /\ trade.amount_x = Wad_to_f64(calldata.words[2].lo)

\* an after_swap call reports the reserves of the pool
ReservesReported(calldata, amm) ==
    /\ calldata.words[5].lo = Wad_from_f64(amm.reserve_x)
    /\ calldata.words[6].lo = Wad_from_f64(amm.reserve_y)

\* a pool after its own trades from the k-th on, one after the other
RECURSIVE OwnTradesApplied(_, _, _, _)
OwnTradesApplied(amm, trades, k, timestamp) ==
    IF k > Len(trades) THEN amm
    ELSE OwnTradesApplied(IF trades[k].amm_buys_x
                  THEN execute_buy_x(amm, trades[k].amount_x, timestamp).amm
                  ELSE execute_buy_x_with_y(amm, trades[k].amount_y, timestamp).amm,
                  trades, k + 1, timestamp)

\* the arbitrage at pool i leaves every other pool as it was, and the
\* strategy of pool i is called once if the pool traded, with the reserves
\* of its own pool, and not at all otherwise
ArbFramed ==
    /\ \A j \in 1 .. Len(run.amms) : j # run.i =>
          run'.amms[j] = run.amms[j] /\ NewSwaps(j) = << >>
    /\ LogExtended(run.i)
    /\ Len(NewSwaps(run.i))
          = IF PoolState(run'.amms[run.i]) # PoolState(run.amms[run.i]) THEN 1 ELSE 0
    /\ \A k \in 1 .. Len(NewSwaps(run.i)) :
          ReservesReported(NewSwaps(run.i)[k], run'.amms[run.i])

\* the retail trades of a step leave each pool as its own trades alone make
\* it, and the strategy of each pool is called for its own trades, once a
\* trade and in their order
RetailFramed ==
    Let(route_orders(run'.orders, run.amms, run.fair_price, run.t).trades,
        LAMBDA trades :
        \A j \in 1 .. Len(run.amms) :
            Let(TradesOf(trades, run.amms[j].name), LAMBDA own :
                /\ run'.amms[j] = OwnTradesApplied(run.amms[j], own, 1, run.t)
                /\ own = << >> => run'.amms[j] = run.amms[j]
                /\ LogExtended(j)
                /\ Len(NewSwaps(j)) = Len(own)
                /\ \A k \in 1 .. Len(own) :
                      SwapOfTrade(NewSwaps(j)[k], own[k], run.t)
                /\ own # << >> =>
                      ReservesReported(NewSwaps(j)[Len(own)], run'.amms[j])))

TradesFramed ==
    /\ run.pc = "arb" => ArbFramed
    /\ run.pc = "retail" => RetailFramed

\* C30: a trade on one pool, of the arbitrageur or a leg of a retail order,
\* changes only that pool: the other pool's reserves, fee quote and
\* accumulated fees stay as they are; a strategy's after_swap is called only
\* for the trades on its own pool, once for each and in their order.
C30_TradesFramed == [][TradesFramed]_vars

\* a step whose retail orders traded on the two pools, more often on one
C30_Witness ==
    /\ run.pc = "capture"
    /\ Len(SwapsSeen(run.amms[1].strategy)) > 0
    /\ Len(SwapsSeen(run.amms[2].strategy)) > 0
    /\ Len(SwapsSeen(run.amms[1].strategy)) # Len(SwapsSeen(run.amms[2].strategy))
    /\ PoolState(run.amms[1]) # PoolState(run.amms[2])

====
